---- MODULE Spec2Model ----
(***************************************************************************)
(* A model of the reactive store runtime of easy-signal (src/src/store.ts): *)
(* store(), computed(), batch() and the global subscriber queue; of the     *)
(* event signal (src/src/signal.ts) and of the debounce helpers             *)
(* (src/src/debounce.ts).                                                   *)
(*                                                                          *)
(* The runtime is single threaded and synchronous, so every public call     *)
(* (subscribe, unsubscribe, read, write, batch) is one action.  The body of *)
(* a call is interpreted by recursive operators over a "world" record that  *)
(* holds the program's mutable state; the calls a handler makes (start      *)
(* functions, compute functions, the drain of the queue) are part of the    *)
(* same action.  What the call did is recorded, in order, in `trace`; the   *)
(* world's `depth` counts the drain loops of queue() that are active.       *)
(***************************************************************************)
EXTENDS Integers, Sequences, FiniteSets, TLC

VARIABLES
  stores,     \* per store: value, subscribers (ordered Map), stop, started
  queue,      \* root.subscriberQueue: ordered Map subscriber -> value
  context,    \* root.context
  computeds,  \* per computed: its closure variables `value` and `unsubscribes`
  pending,    \* `pending` of every activation of a computed
  unsubFns,   \* the unsubscribe closures created so far: <<store, subscriber>>
  handles,    \* the unsubscribe functions the caller holds
  silent,     \* those of them that subscribe(cb, false) returned
  promises,   \* the promises whenMatches and afterChange returned
  called,     \* those of them the caller has called
  trace,      \* what the last call did, in order
  thrown,     \* the exception that left the last call ("" when it returned)
  returned,   \* the value the last call returned, when it was a read of `state`
  lastOp,     \* the last call made
  ops,        \* number of calls made so far
  debounced,  \* per debounced wrapper: `nextArgs`, the callbacks its scheduler
              \* holds, and the arguments of the invocations of fn so far
  sinceBoundary, \* per wrapper: the arguments of its calls since its last boundary
  lastTick,   \* the last step of a wrapper: a call of it or its boundary
  ticks,      \* number of such steps so far
  subscribers,    \* signal(): the Set `subscribers`, in insertion order
  errorListeners, \* signal(): the Set `errorListeners`, in insertion order
  removers,   \* the unsubscribe functions the signal returned: <<set, listener>>
  invoked,    \* the listener invocations the last call of the signal made, in order
  settled,    \* how the promise the last emit or emitError returned was settled
  lastSignal, \* the last call of the signal
  signals     \* number of calls of the signal so far

vars == <<stores, queue, context, computeds, pending, unsubFns, handles, silent, promises,
          called, trace, thrown, returned, lastOp, ops,
          debounced, sinceBoundary, lastTick, ticks,
          subscribers, errorListeners, removers, invoked, settled, lastSignal, signals>>

----------------------------------------------------------------------------
(* Bounds *)

\* calls made in one behaviour
MaxOps == 4

\* updates in the function passed to batch
MaxBatch == 2

\* the updater counts modulo ValMod
ValMod == 2

\* promises asked of whenMatches and afterChange in one behaviour
MaxPromises == 2

\* calls of debounced wrappers and scheduling boundaries in one behaviour
MaxTicks == 4

\* calls of the event signal in one behaviour
MaxSignals == 4

----------------------------------------------------------------------------
(* The objects of the modelled program *)

PlainStores == {"a", "b"}
Computeds == {"sum", "c1", "c2", "d", "t", "sel", "twice", "e"}
Stores == PlainStores \cup Computeds
Fns == {"f", "g"}

NoStore == ""
NoErr == ""
TypeError == "TypeError"
Error == "Error"
\* a read of `const unsubscribe` before its initialisation throws a
\* ReferenceError; compiled down to `var` it reads undefined and the call of
\* it throws a TypeError
UninitErrors == {"ReferenceError", TypeError}

\* JavaScript values: numbers (ref = 0) and objects with a valueOf() (ref > 0)
Prim(n) == [ref |-> 0, v |-> n]
Box(r, n) == [ref |-> r, v |-> n]
Undefined == [ref |-> 0, v |-> -1]
Num(x) == x.v

WriteVals == {Prim(0), Prim(1), Box(1, 1)}

\* the updater passed to store.update: v => (v + 1) % ValMod
Inc(x) == Prim((Num(x) + 1) % ValMod)

\* subscriber identities
FnSub(f) == <<"fn", f, 0>>
CompSub(c, k) == <<"comp", c, k>>
PromiseSub(p) == <<"promise", "", p>>
noop == <<"noop", "", 0>>

\* stop handles: 0 is null, NoopStop is `noop`, n > 0 the cleanup returned by
\* the n-th call of the store's start function
NoStop == 0
NoopStop == -1

NoCtx == [sub |-> noop, unsubs |-> <<>>, live |-> FALSE]

\* an entry of trace: what happened (ev), to which store (s), for which
\* subscriber (sub), with which value (val) and values read (reads); n and m
\* are numbers the kind of event gives a meaning to
Ev(ev, s, sub, val, n, m, reads) ==
  [ev |-> ev, s |-> s, sub |-> sub, val |-> val, n |-> n, m |-> m, reads |-> reads]

Emit(w, e) == [w EXCEPT !.trace = Append(@, e)]

----------------------------------------------------------------------------
(* Sequence helpers for the ordered Maps and Sets of the program *)

SeqRange(q) == {q[i] : i \in 1..Len(q)}

Keys(q) == [i \in 1..Len(q) |-> q[i][1]]

HasKey(q, k) == \E i \in 1..Len(q) : q[i][1] = k

EntryOfKey(q, k) == q[CHOOSE i \in 1..Len(q) : q[i][1] = k]

DeleteKey(q, k) == SelectSeq(q, LAMBDA e : e[1] # k)

\* Map.set of a key that is absent appends; of a present key keeps its place.
\* An entry is <<subscriber, value, src>>; src, the store whose write made the
\* entry, is not in the program: it lets a delivery be told from another
SetKey(q, k, v, src) ==
  IF HasKey(q, k) THEN [i \in 1..Len(q) |-> IF q[i][1] = k THEN <<k, v, src>> ELSE q[i]]
  ELSE Append(q, <<k, v, src>>)

SubKeys(subs) == [i \in 1..Len(subs) |-> subs[i].sub]

HasSub(subs, sub) == \E i \in 1..Len(subs) : subs[i].sub = sub

SubEntry(subs, sub) == subs[CHOOSE i \in 1..Len(subs) : subs[i].sub = sub]

DeleteSub(subs, sub) == SelectSeq(subs, LAMBDA e : e.sub # sub)

\* Set.add
AddLast(seq, x) == IF x \in SeqRange(seq) THEN seq ELSE Append(seq, x)

\* the stores in a fixed order, and for subscriber sub the unsubscribe
\* closure of its registration on each of them (0 where it has none)
StoreSeq == <<"a", "b", "sum", "c1", "c2", "d", "t", "sel", "twice", "e">>

Registrations(st, sub) ==
  [i \in 1..Len(StoreSeq) |->
     IF HasSub(st[StoreSeq[i]].subs, sub) THEN SubEntry(st[StoreSeq[i]].subs, sub).un ELSE 0]

----------------------------------------------------------------------------
(* store.set's equality rule *)

\* `value && typeof value.valueOf === 'function'`: every truthy number and
\* every object has a valueOf; 0 and undefined are falsy
hasValueOf(x) == x.ref # 0 \/ (x # Undefined /\ x.v # 0)

\* `===`: numbers by value, objects by reference
StrictEqual(x, y) == x = y

\* the test that makes set() return without doing anything
SameValue(x, y) ==
  StrictEqual(x, y) \/ (hasValueOf(x) /\ hasValueOf(y) /\ x.v = y.v)

----------------------------------------------------------------------------
(* The compute functions given to computed(): *)
(*   sum = a + b,  c1 = a + 1,  c2 = c1 + 1,  d = a + b + c2,               *)
(*   sel = a >= 1 ? a + sum : a,  twice = a + a,  e = c2 + b                *)

Reads(c) ==
  CASE c = "sum" -> <<"a", "b">>
    [] c = "c1" -> <<"a">>
    [] c = "c2" -> <<"c1">>
    [] c = "d" -> <<"a", "b", "c2">>
    [] c = "t" -> <<"a", "b">>
    [] c = "sel" -> <<"a", "sum">>
    [] c = "twice" -> <<"a", "a">>
    [] c = "e" -> <<"c2", "b">>

\* the store the function reads next, having read vals so far: sel does not
\* read sum while a < 1, and t throws, before it reads b, when a is 1
FnNext(c, vals) ==
  IF c = "sel" /\ Len(vals) = 1 /\ Num(vals[1]) < 1 THEN NoStore
  ELSE IF c = "t" /\ Len(vals) = 1 /\ Num(vals[1]) = 1 THEN NoStore
  ELSE IF Len(vals) < Len(Reads(c)) THEN Reads(c)[Len(vals) + 1] ELSE NoStore

RECURSIVE SumNum(_)
SumNum(vals) == IF vals = <<>> THEN 0 ELSE Num(Head(vals)) + SumNum(Tail(vals))

\* t = computed(() => { if (a.state == 1) throw new Error(); return a.state + b.state })
Throws(c, vals) == c = "t" /\ Num(vals[1]) = 1

\* the condition given to whenMatches: v => v >= 1
Matches(v) == Num(v) >= 1

FnResult(c, vals) ==
  IF c \in {"c1", "c2"} THEN Prim(Num(vals[1]) + 1)
  ELSE IF c = "sel" /\ Num(vals[1]) < 1 THEN Prim(Num(vals[1]))
  ELSE Prim(SumNum(vals))

\* the default start function is noop and returns nothing; store "a" is given
\* a start function that returns a cleanup
StartReturnsCleanup(s) == s # "b"

\* and that reads the store it starts: store(0, () => { a.state; return cleanup })
StartReadsState(s) == s = "a"

----------------------------------------------------------------------------
(* forExistsInBoth: the keys of the smaller map that the larger one has,    *)
(* in the smaller map's order                                               *)

forExistsInBoth(a, b) ==
  LET smaller == IF Len(a) <= Len(b) THEN a ELSE b
      larger == IF Len(a) <= Len(b) THEN b ELSE a
  IN SelectSeq(smaller, LAMBDA k : k \in SeqRange(larger))

\* `value = queue.get(k); queue.delete(k); queue.set(k, value)` for each key
RECURSIVE MoveToEnd(_, _)
MoveToEnd(q, ks) ==
  IF ks = <<>> THEN q
  ELSE MoveToEnd(Append(DeleteKey(q, Head(ks)), EntryOfKey(q, Head(ks))), Tail(ks))

----------------------------------------------------------------------------
(* The interpreter.  Every operator takes the world w and returns the world *)
(* after the call; w.ret is the value the call returned and w.err the       *)
(* exception that is propagating (a statement is skipped while one is).     *)

RECURSIVE get(_, _)
RECURSIVE set(_, _, _)
RECURSIVE subscribe(_, _, _, _)
RECURSIVE unsubscribe(_, _)
RECURSIVE unsubscribeAll(_, _)
RECURSIVE start(_, _)
RECURSIVE callStop(_, _, _)
RECURSIVE invoke(_, _, _, _)
RECURSIVE invalidate(_, _)
RECURSIVE notify(_, _, _)
RECURSIVE queueFn(_, _, _)
RECURSIVE runBody(_, _)
RECURSIVE update(_, _)
RECURSIVE runUpdates(_, _)
RECURSIVE drain(_)
RECURSIVE sync(_, _, _)
RECURSIVE runFn(_, _, _)
RECURSIVE Apply(_, _, _)
RECURSIVE whenMatches_subscriber(_, _, _)
RECURSIVE afterChange_subscriber(_, _, _)

\* get, once subscribe has returned in ws: `unsubscribes.add(...)`
get_add(ws) ==
  IF ws.err # NoErr THEN ws ELSE [ws EXCEPT !.ctx.unsubs = AddLast(@, ws.ret)]

\* get that keeps the cleanup as the stop handle of the store
get_stop_Keep(wa, s) ==
  IF wa.err # NoErr THEN [wa EXCEPT !.st[s].started = FALSE]
  ELSE [wa EXCEPT !.st[s].started = FALSE, !.st[s].stop = wa.ret]

\* get that leaves the store it started running
get_stop_NoStop(wa, s) ==
  [wa EXCEPT !.st[s].started = FALSE]

\* get, once start has returned in wa: the cleanup is called at once, and
\* `finally { started = false }`
get_stop(wa, s) ==
  [Apply("callStop", wa, <<s, wa.ret>>) EXCEPT !.st[s].started = FALSE]

\* get: `return value`
get_return(w2, s) ==
  IF w2.err # NoErr THEN w2 ELSE [w2 EXCEPT !.ret = w2.st[s].value]

\* get that starts the store whether or not it has subscribers
get_read_StartAlways(w1, s) ==
  IF w1.err # NoErr \/ w1.st[s].started THEN get_return(w1, s)
  ELSE get_return(get_stop(Apply("start", [w1 EXCEPT !.st[s].started = TRUE], <<s>>), s), s)

\* get, after the context has been served: a store nobody subscribes to is
\* started and stopped around the read
get_read(w1, s) ==
  IF w1.err # NoErr \/ Len(w1.st[s].subs) # 0 \/ w1.st[s].started THEN get_return(w1, s)
  ELSE get_return(get_stop(Apply("start", [w1 EXCEPT !.st[s].started = TRUE], <<s>>), s), s)

\* store.get
get(w, s) ==
  IF w.err # NoErr THEN w
  ELSE get_read(IF ~w.ctx.live THEN w
                ELSE get_add(subscribe(w, s, w.ctx.sub, "fn")), s)

\* set() that does not compare the new value with the old
set_NoCompare(w, s, newValue) ==
  IF w.err # NoErr THEN w
  ELSE LET w1 == [w EXCEPT !.st[s].value = newValue]
       IN IF w1.st[s].stop # NoStop
          THEN Apply("queueFn", w1, <<[kind |-> "notify", s |-> s, body |-> <<>>], FALSE>>)
          ELSE w1

\* set() that notifies although the store is not ready
set_NotifyUnready(w, s, newValue) ==
  IF w.err # NoErr THEN w
  ELSE IF SameValue(w.st[s].value, newValue) THEN w
  ELSE Apply("queueFn", [w EXCEPT !.st[s].value = newValue],
             <<[kind |-> "notify", s |-> s, body |-> <<>>], FALSE>>)

\* set() comparing with === alone
set_StrictEqualOnly(w, s, newValue) ==
  IF w.err # NoErr THEN w
  ELSE IF StrictEqual(w.st[s].value, newValue) THEN w
  ELSE LET w1 == [w EXCEPT !.st[s].value = newValue]
       IN IF w1.st[s].stop # NoStop
          THEN Apply("queueFn", w1, <<[kind |-> "notify", s |-> s, body |-> <<>>], FALSE>>)
          ELSE w1

\* store.set
set(w, s, newValue) ==
  IF w.err # NoErr THEN w
  ELSE IF SameValue(w.st[s].value, newValue) THEN w
  ELSE LET w1 == [w EXCEPT !.st[s].value = newValue]
       IN IF w1.st[s].stop # NoStop
          THEN queueFn(w1, [kind |-> "notify", s |-> s, body |-> <<>>], FALSE)
          ELSE w1

\* the function store.set hands to queue(): subscribers.forEach(...) from the
\* i-th subscriber on.  A subscriber that has an entry in the queue is passed
\* over, which the event "held" records
notify(w, s, i) ==
  IF w.err # NoErr \/ i > Len(w.st[s].subs) THEN w ELSE
  LET e == w.st[s].subs[i]
      w1 == IF HasKey(w.q, e.sub)
            THEN Emit(w, Ev("held", s, e.sub, w.st[s].value, 0, 0, <<>>))
            ELSE LET wq == Emit([w EXCEPT !.q = SetKey(@, e.sub, w.st[s].value, s)],
                                Ev("enqueue", s, e.sub, w.st[s].value, 0, 0, <<>>))
                 IN IF e.inv THEN invalidate(wq, e.sub) ELSE wq
  IN notify(w1, s, i + 1)

\* the invalidate closure of the activation sub of a computed; an event
\* "move" records each entry it moves to the end of the queue
invalidate(w, sub) ==
  IF w.err # NoErr THEN w ELSE
  LET w1 == Emit([w EXCEPT !.pend[sub] = @ + 1], Ev("invalidate", sub[2], sub, Undefined, 0, 0, <<>>))
      both == forExistsInBoth(SubKeys(w1.st[sub[2]].subs), Keys(w1.q))
  IN [w1 EXCEPT !.q = MoveToEnd(@, both),
                !.trace = @ \o [i \in 1..Len(both) |->
                                  Ev("move", sub[2], both[i], Undefined, 0, 0, <<>>)]]

\* subscribe: `subscribers.set(subscriber, [unsubscribe, invalidate])`, the
\* unsubscribe closure being number u
subscribe_register(w, s, sub, inv, u) ==
  [w EXCEPT !.uf = Append(@, <<s, sub>>),
            !.st[s].subs = Append(@, [sub |-> sub, un |-> u, inv |-> (inv = "fn")])]

\* subscribe, once start has returned in ws: `stop = start(set, update) || noop`
subscribe_setStop(ws, s) ==
  IF ws.err # NoErr THEN ws ELSE [ws EXCEPT !.st[s].stop = ws.ret]

\* subscribe: `if (subscribers.size === 1) stop = start(...)`
subscribe_start(w1, s) ==
  IF w1.err = NoErr /\ Len(w1.st[s].subs) = 1
  THEN subscribe_setStop(start(w1, s), s)
  ELSE w1

\* subscribe() that calls the subscriber although false was passed
subscribe_call_Always(w2, s, sub, inv) ==
  IF w2.err = NoErr /\ inv # "fn"
  THEN Apply("invoke", w2, <<sub, w2.st[s].value, s>>)
  ELSE w2

\* subscribe: `if (invalidate === undefined) subscriber(value)`
subscribe_call(w2, s, sub, inv) ==
  IF w2.err = NoErr /\ inv = "undefined"
  THEN Apply("invoke", w2, <<sub, w2.st[s].value, s>>)
  ELSE w2

\* subscribe: `return unsubscribe`
subscribe_return(w3, u) ==
  IF w3.err # NoErr THEN w3 ELSE [w3 EXCEPT !.ret = u]

\* subscribe() that calls the subscriber before the store is started
subscribe_CallBeforeStart(w, s, sub, inv) ==
  IF w.err # NoErr THEN w
  ELSE IF HasSub(w.st[s].subs, sub) THEN [w EXCEPT !.ret = SubEntry(w.st[s].subs, sub).un]
  ELSE subscribe_return(
         subscribe_start(
           subscribe_call(subscribe_register(w, s, sub, inv, Len(w.uf) + 1), s, sub, inv),
           s),
         Len(w.uf) + 1)

\* subscribe() that starts the store at every registration
subscribe_StartAlways(w, s, sub, inv) ==
  IF w.err # NoErr THEN w
  ELSE IF HasSub(w.st[s].subs, sub) THEN [w EXCEPT !.ret = SubEntry(w.st[s].subs, sub).un]
  ELSE subscribe_return(
         subscribe_call(
           subscribe_setStop(
             Apply("start", subscribe_register(w, s, sub, inv, Len(w.uf) + 1), <<s>>), s),
           s, sub, inv),
         Len(w.uf) + 1)

\* subscribe() that registers the subscriber whether or not it is registered
subscribe_Again(w, s, sub, inv) ==
  IF w.err # NoErr THEN w
  ELSE subscribe_return(
         subscribe_call(
           subscribe_start(subscribe_register(w, s, sub, inv, Len(w.uf) + 1), s),
           s, sub, inv),
         Len(w.uf) + 1)

\* store.subscribe; inv is "undefined", "false" or "fn" (an invalidate callback)
subscribe(w, s, sub, inv) ==
  IF w.err # NoErr THEN w
  ELSE IF HasSub(w.st[s].subs, sub) THEN [w EXCEPT !.ret = SubEntry(w.st[s].subs, sub).un]
  ELSE subscribe_return(
         subscribe_call(
           subscribe_start(subscribe_register(w, s, sub, inv, Len(w.uf) + 1), s),
           s, sub, inv),
         Len(w.uf) + 1)

\* the unsubscribe closure, once stop has returned in ws: `stop = null`
unsubscribe_clear(ws, s) ==
  IF ws.err # NoErr THEN ws ELSE [ws EXCEPT !.st[s].stop = NoStop]

\* an unsubscribe closure that clears the stop handle without calling it
unsubscribe_NoStop(w, u) ==
  IF w.err # NoErr THEN w ELSE
  LET s == w.uf[u][1]
      w1 == [w EXCEPT !.st[s].subs = DeleteSub(@, w.uf[u][2])]
  IN IF Len(w1.st[s].subs) # 0 THEN w1
     ELSE IF w1.st[s].stop = NoStop THEN [w1 EXCEPT !.err = TypeError]
     ELSE [w1 EXCEPT !.st[s].stop = NoStop]

\* the unsubscribe closure number u
unsubscribe(w, u) ==
  IF w.err # NoErr THEN w ELSE
  LET s == w.uf[u][1]
      w1 == [w EXCEPT !.st[s].subs = DeleteSub(@, w.uf[u][2])]
  IN IF Len(w1.st[s].subs) # 0 THEN w1
     ELSE IF w1.st[s].stop = NoStop THEN [w1 EXCEPT !.err = TypeError]
     ELSE unsubscribe_clear(Apply("callStop", w1, <<s, w1.st[s].stop>>), s)

\* us.forEach(u => u())
unsubscribeAll(w, us) ==
  IF w.err # NoErr \/ us = <<>> THEN w
  ELSE unsubscribeAll(Apply("unsubscribe", w, <<Head(us)>>), Tail(us))

\* the start function of a computed, once its first sync has returned in ws:
\* `return () => unsubscribes.forEach(u => u())`, the cleanup number n
start_return(ws, n) ==
  IF ws.err # NoErr THEN ws ELSE [ws EXCEPT !.ret = n]

\* the start function of a plain store, once its read of the store has
\* returned in wg: the event records the value read
start_reread(wg, s) ==
  IF wg.err # NoErr THEN wg ELSE Emit(wg, Ev("reread", s, noop, wg.ret, 0, 0, <<>>))

\* the start function of a plain store, which reads the store if it is one
\* of StartReadsState
start_read(w1, s) ==
  IF ~StartReadsState(s) THEN w1 ELSE start_reread(get(w1, s), s)

\* `start(set, update) || noop`: calls the start function of s and returns
\* the cleanup.  The event records the number of subscribers (n) and the stop
\* handle (m) of s at the call
start(w, s) ==
  IF w.err # NoErr THEN w ELSE
  LET n == w.st[s].starts + 1
      w1 == Emit([w EXCEPT !.st[s].starts = n],
                 Ev("start", s, noop, Undefined, Len(w.st[s].subs), w.st[s].stop, <<>>))
  IN IF s \in Computeds
     THEN start_return(sync([w1 EXCEPT !.pend = (CompSub(s, n) :> 0) @@ @], s, n), n)
     ELSE [start_read(w1, s) EXCEPT !.ret = IF StartReturnsCleanup(s) THEN n ELSE NoopStop]

\* a call of the cleanup h of store s
callStop(w, s, h) ==
  IF w.err # NoErr THEN w ELSE
  LET w1 == Emit(w, Ev("stop", s, noop, Undefined, h, 0, <<>>))
  IN IF s \in Computeds THEN Apply("unsubscribeAll", w1, <<w1.comp[s].unsubs>>) ELSE w1

\* a call of the subscriber function sub with value v, for a change of src.
\* For the subscriber of a computed the event records `pending` at the call (n)
invoke(w, sub, v, src) ==
  IF w.err # NoErr THEN w ELSE
  LET w1 == Emit(w, Ev("call", src, sub, v, IF sub[1] = "comp" THEN w.pend[sub] ELSE 0, 0, <<>>))
  IN IF sub[1] = "promise"
     THEN Apply(w1.prom[sub[3]].kind, w1, <<sub[3], v>>)
     ELSE IF sub[1] # "comp" THEN w1
     ELSE LET w2 == [w1 EXCEPT !.pend[sub] = @ - 1]
          IN IF w2.pend[sub] = 0 THEN sync(w2, sub[2], sub[3]) ELSE w2

\* the compute function of c, once the get of its next store has returned in wg
runFn_read(wg, c, vals) ==
  IF wg.err # NoErr THEN wg ELSE runFn(wg, c, Append(vals, wg.ret))

\* the compute function of c, having read vals: `value = fn(value)`
runFn(w, c, vals) ==
  IF w.err # NoErr THEN w
  ELSE IF FnNext(c, vals) = NoStore
  THEN IF Throws(c, vals)
       THEN Emit([w EXCEPT !.err = Error], Ev("throw", c, w.ctx.sub, Undefined, 0, 0, vals))
       ELSE Emit([w EXCEPT !.comp[c].value = FnResult(c, vals)],
                 Ev("run", c, w.ctx.sub, FnResult(c, vals), 0, 0, vals))
  ELSE runFn_read(get(w, FnNext(c, vals)), c, vals)

\* a sync that drops every subscription it had before the run
sync_unsubscribe_Old(w, c, stale) ==
  Apply("unsubscribeAll", [w EXCEPT !.comp[c].unsubs = stale], <<w.comp[c].unsubs>>)

\* a sync that keeps the subscriptions the run did not renew
sync_unsubscribe_Keep(w, c, stale) ==
  [w EXCEPT !.comp[c].unsubs = stale]

\* sync, finally: the subscriptions in stale, which the run did not renew, are
\* unsubscribed and deleted
sync_unsubscribe(w, c, stale) ==
  Apply("unsubscribeAll", [w EXCEPT !.comp[c].unsubs = stale], <<stale>>)

\* a sync that catches what the compute function throws
sync_restore_Catch(w3, c, prior, err) ==
  IF w3.err # NoErr THEN w3
  ELSE [w3 EXCEPT !.comp[c].unsubs = w3.ctx.unsubs, !.ctx = prior, !.err = NoErr]

\* a sync that leaves its context in place
sync_restore_NoPop(w3, c, prior, err) ==
  IF w3.err # NoErr THEN w3
  ELSE [w3 EXCEPT !.comp[c].unsubs = w3.ctx.unsubs, !.err = err]

\* sync, finally: `unsubscribes = context.unsubscribes; root.context = priorContext`,
\* after which the exception err of the try block propagates
sync_restore(w3, c, prior, err) ==
  IF w3.err # NoErr THEN w3
  ELSE [w3 EXCEPT !.comp[c].unsubs = w3.ctx.unsubs, !.ctx = prior, !.err = err]

\* the finally block of sync is left without an exception in w3: the event
\* records the registrations of the activation sub and the number of
\* subscribers of the computed (n)
sync_synced(w3, sub) ==
  IF w3.err # NoErr THEN w3
  ELSE Emit(w3, Ev("synced", sub[2], sub, Undefined, Len(w3.st[sub[2]].subs), 0,
                   Registrations(w3.st, sub)))

\* the finally block of sync, entered with the world w2 the try block left
sync_finally(w2, c, prior) ==
  IF w2.err = NoErr
  THEN sync_synced(
         sync_restore(
           sync_unsubscribe(w2, c, SelectSeq(w2.comp[c].unsubs,
                                             LAMBDA u : u \notin SeqRange(w2.ctx.unsubs))),
           c, prior, NoErr),
         w2.ctx.sub)
  ELSE sync_restore(
         sync_unsubscribe([w2 EXCEPT !.err = NoErr], c,
                          SelectSeq(w2.comp[c].unsubs, LAMBDA u : u \notin SeqRange(w2.ctx.unsubs))),
         c, prior, w2.err)

\* sync: `set(value)`
sync_set(w4, c) ==
  IF w4.err # NoErr THEN w4 ELSE set(w4, c, w4.comp[c].value)

\* sync of the activation k of computed c; the event records the
\* registrations of the activation when sync is entered
sync(w, c, k) ==
  IF w.err # NoErr THEN w
  ELSE sync_set(
         sync_finally(
           runFn(Emit([w EXCEPT !.ctx = [sub |-> CompSub(c, k), unsubs |-> <<>>, live |-> TRUE]],
                      Ev("sync", c, CompSub(c, k), Undefined, 0, 0, Registrations(w.st, CompSub(c, k)))),
                 c, <<>>),
           c, w.ctx),
         c)

\* the last statement of a batch block that ends with `u()`; un is 0 in a
\* block that has no such statement
runBody_detach(w, un) ==
  IF un = 0 THEN w ELSE Apply("unsubscribe", w, <<un>>)

\* the end of a batch block
runBody_end(w2) ==
  IF w2.err # NoErr THEN w2
  ELSE Emit(w2, Ev("fnEnd", NoStore, noop, Undefined,
                   IF w2.q # <<>> /\ w2.q[1][1] = noop THEN 1 ELSE 0, 0, <<>>))

\* the function passed to queue(): store.set's notification or a batch block.
\* The events of a block record whether the queue holds the sentinel alone
\* when the block begins (n) and whether the sentinel is its head when it
\* ends (n)
runBody(w, fn) ==
  IF w.err # NoErr THEN w
  ELSE IF fn.kind = "notify" THEN notify(w, fn.s, 1)
  ELSE runBody_end(
         runBody_detach(
           Apply("runUpdates",
                 Emit(w, Ev("fnBegin", NoStore, noop, Undefined,
                            IF Keys(w.q) = <<noop>> THEN 1 ELSE 0, 0, <<>>)),
                 <<fn.body>>),
           fn.un))

\* store.update with the updater Inc
update(w, s) ==
  IF w.err # NoErr THEN w ELSE Apply("set", w, <<s, Inc(w.st[s].value)>>)

\* the statements of a batch block: `s.update(Inc)` for each s of body
runUpdates(w, body) ==
  IF w.err # NoErr \/ body = <<>> THEN w
  ELSE runUpdates(Apply("update", w, <<Head(body)>>), Tail(body))

\* queue: `if (runQueue && batch) subscriberQueue.set(noop, undefined)`
queueFn_sentinel(w, batch) ==
  IF Len(w.q) = 0 /\ batch THEN [w EXCEPT !.q = SetKey(@, noop, Undefined, NoStore)] ELSE w

\* queue: the while loop is entered.  The event records the number of loops
\* that are now active (n) and the number of entries in the queue (m)
drain_begin(w2) ==
  Emit([w2 EXCEPT !.depth = @ + 1],
       Ev("drainBegin", NoStore, noop, Undefined, w2.depth + 1, Len(w2.q), <<>>))

\* queue: the while loop is left
drain_end(w3) ==
  IF w3.err # NoErr THEN w3
  ELSE Emit([w3 EXCEPT !.depth = @ - 1], Ev("drainEnd", NoStore, noop, Undefined, w3.depth, 0, <<>>))

\* queue, once fn has returned in w2: `if (runQueue) { while (...) }`
queueFn_drain(w2, runQueue) ==
  IF runQueue /\ w2.err = NoErr THEN drain_end(drain(drain_begin(w2))) ELSE w2

\* queue() that never inserts the sentinel
queueFn_NoSentinel(w, fn, batch) ==
  IF w.err # NoErr THEN w
  ELSE queueFn_drain(Apply("runBody", w, <<fn>>), Len(w.q) = 0)

\* queue() in which every call drains
queueFn_DrainAlways(w, fn, batch) ==
  IF w.err # NoErr THEN w
  ELSE Apply("drain", Apply("runBody", queueFn_sentinel(w, batch), <<fn>>), <<>>)

\* queue() that never drains
queueFn_NoDrain(w, fn, batch) ==
  IF w.err # NoErr THEN w
  ELSE Apply("runBody", queueFn_sentinel(w, batch), <<fn>>)

\* queue(fn, batch)
queueFn(w, fn, batch) ==
  IF w.err # NoErr THEN w
  ELSE queueFn_drain(runBody(queueFn_sentinel(w, batch), fn), Len(w.q) = 0)

\* a drain loop that delivers the last entry first
drain_LastFirst(w) ==
  IF w.err # NoErr \/ Len(w.q) = 0 THEN w
  ELSE Apply("drain",
             Apply("invoke", [w EXCEPT !.q = SubSeq(@, 1, Len(@) - 1)],
                   <<w.q[Len(w.q)][1], w.q[Len(w.q)][2], w.q[Len(w.q)][3]>>),
             <<>>)

\* the while loop of queue(): deliver the head entry until the queue is empty
drain(w) ==
  IF w.err # NoErr \/ Len(w.q) = 0 THEN w
  ELSE drain(invoke([w EXCEPT !.q = Tail(@)], w.q[1][1], w.q[1][2], w.q[1][3]))

\* `resolve(value)`, once unsubscribe has returned in wu; resolving a settled
\* promise does nothing
resolve(wu, p, value) ==
  IF wu.err # NoErr \/ wu.prom[p].state # "pending" THEN wu
  ELSE [wu EXCEPT !.prom[p].state = "resolved", !.prom[p].val = value]

\* an afterChange subscriber that resolves and stays subscribed
afterChange_subscriber_Stay(w, p, value) ==
  IF w.err # NoErr THEN w ELSE resolve(w, p, value)

\* the subscriber afterChange registers for promise p, called with value;
\* `unsubscribe` is read from the enclosing const, which is uninitialised
\* (un = 0) until subscribe has returned
afterChange_subscriber(w, p, value) ==
  IF w.err # NoErr THEN w
  ELSE IF w.prom[p].un = 0 THEN [w EXCEPT !.err = w.prom[p].uninit]
  ELSE resolve(Apply("unsubscribe", w, <<w.prom[p].un>>), p, value)

\* the subscriber whenMatches registers for promise p, called with value
whenMatches_subscriber(w, p, value) ==
  IF w.err # NoErr THEN w
  ELSE IF ~Matches(value) THEN w
  ELSE IF w.prom[p].un = 0 THEN [w EXCEPT !.err = w.prom[p].uninit]
  ELSE resolve(Apply("unsubscribe", w, <<w.prom[p].un>>), p, value)

\* the end of a Promise executor that ran `const unsubscribe = store.subscribe(...)`
\* and left the world ws: what it threw rejects the promise and does not
\* reach the caller; otherwise the const is initialised
executor_end(ws, p) ==
  IF ws.err # NoErr
  THEN [ws EXCEPT !.err = NoErr,
                  !.prom[p].state = IF @ = "pending" THEN "rejected" ELSE @,
                  !.prom[p].reason = IF ws.prom[p].state = "pending" THEN ws.err ELSE @]
  ELSE [ws EXCEPT !.prom[p].un = ws.ret]

\* a new promise on store s whose subscriber is the function named kind
NewPromise(kind, s, uninit) ==
  [kind |-> kind, s |-> s, un |-> 0, state |-> "pending", val |-> Undefined,
   reason |-> NoErr, uninit |-> uninit]

\* whenMatches(s, Matches); uninit is the error a read of the uninitialised
\* const leads to
whenMatches(w, s, uninit) ==
  executor_end(
    Apply("subscribe",
          [w EXCEPT !.prom = Append(@, NewPromise("whenMatches_subscriber", s, uninit))],
          <<s, PromiseSub(Len(w.prom) + 1), "undefined">>),
    Len(w.prom) + 1)

\* afterChange(s)
afterChange(w, s) ==
  executor_end(
    Apply("subscribe",
          [w EXCEPT !.prom = Append(@, NewPromise("afterChange_subscriber", s, "ReferenceError"))],
          <<s, PromiseSub(Len(w.prom) + 1), "false">>),
    Len(w.prom) + 1)

\* clearAllContext()
clearAllContext(w) ==
  [w EXCEPT !.ctx = NoCtx, !.q = <<>>]

\* a call, from inside a function, of the function named fn with arguments args
Apply(fn, w, args) ==
  CASE fn = "get" -> get(w, args[1])
    [] fn = "set" -> set(w, args[1], args[2])
    [] fn = "subscribe" -> subscribe(w, args[1], args[2], args[3])
    [] fn = "unsubscribe" -> unsubscribe(w, args[1])
    [] fn = "unsubscribeAll" -> unsubscribeAll(w, args[1])
    [] fn = "start" -> start(w, args[1])
    [] fn = "callStop" -> callStop(w, args[1], args[2])
    [] fn = "invoke" -> invoke(w, args[1], args[2], args[3])
    [] fn = "notify" -> notify(w, args[1], args[2])
    [] fn = "queueFn" -> queueFn(w, args[1], args[2])
    [] fn = "runBody" -> runBody(w, args[1])
    [] fn = "update" -> update(w, args[1])
    [] fn = "runUpdates" -> runUpdates(w, args[1])
    [] fn = "drain" -> drain(w)
    [] fn = "sync" -> sync(w, args[1], args[2])
    [] fn = "runFn" -> runFn(w, args[1], args[2])
    [] fn = "whenMatches_subscriber" -> whenMatches_subscriber(w, args[1], args[2])
    [] fn = "afterChange_subscriber" -> afterChange_subscriber(w, args[1], args[2])

----------------------------------------------------------------------------
(* debounce.ts *)

\* onTick(fn), onTimeout(fn) and onAnimationFrame(fn): debounce(scheduler, fn)
\* with the scheduler tick, timeout and frame
Wrappers == {"onTick", "onTimeout", "onAnimationFrame"}

\* the argument lists the wrappers are called with
ArgLists == {<<>>, <<"x">>, <<"y">>}

\* the values of `nextArgs`: undefined until assigned, null, or an array
NotSet == [type |-> "undefined", args |-> <<>>]
Null == [type |-> "null", args |-> <<>>]
Array(args) == [type |-> "array", args |-> args]

\* !x is false for every array, the empty one included
Truthy(x) == x.type = "array"

\* the function debounce returns, called with args, on the closure state d
wrapper(d, args) ==
  LET d1 == [d EXCEPT !.nextArgs = Array(args)]
      d2 == IF ~Truthy(d1.nextArgs) THEN [d1 EXCEPT !.scheduled = @ + 1] ELSE d1
  IN [d2 EXCEPT !.nextArgs = Array(args)]

\* the callback given to the scheduler
callback(d) ==
  [d EXCEPT !.nextArgs = Null, !.scheduled = @ - 1, !.invoked = Append(@, d.nextArgs.args)]

\* the scheduler runs every callback it holds
RECURSIVE runCallbacks(_)
runCallbacks(d) == IF d.scheduled = 0 THEN d ELSE runCallbacks(callback(d))

----------------------------------------------------------------------------
(* signal.ts *)

\* the listener functions given to the signal: f returns, g is async and its
\* promise is rejected, h throws
Listeners == {"f", "g", "h"}

ThrowsSync(l) == l = "h"

\* `Array.from(listeners).map(listener => listener(arg))`: the listeners are
\* called in order, with a value of kind arg, until one of them throws; done
\* holds the calls made so far
RECURSIVE map(_, _, _)
map(listeners, arg, done) ==
  IF listeners = <<>> THEN [invoked |-> done, settled |-> "fulfilled"]
  ELSE IF ThrowsSync(Head(listeners))
  THEN [invoked |-> Append(done, [listener |-> Head(listeners), arg |-> arg]),
        settled |-> "rejected"]
  ELSE map(Tail(listeners), arg, Append(done, [listener |-> Head(listeners), arg |-> arg]))

SignalUnchanged ==
  UNCHANGED <<subscribers, errorListeners, removers, invoked, settled, lastSignal, signals>>

----------------------------------------------------------------------------
(* The state machine: one action per public call *)

World ==
  [st |-> stores, q |-> queue, ctx |-> context, comp |-> computeds, pend |-> pending,
   uf |-> unsubFns, prom |-> promises, trace |-> <<>>, err |-> NoErr, ret |-> Undefined,
   depth |-> 0]

Op(name, s, f, v, u, body) ==
  [op |-> name, s |-> s, f |-> f, v |-> v, u |-> u, body |-> body]

Commit(w, op) ==
  /\ stores' = w.st
  /\ queue' = w.q
  /\ context' = w.ctx
  /\ computeds' = w.comp
  /\ pending' = w.pend
  /\ unsubFns' = w.uf
  /\ promises' = w.prom
  /\ silent' = IF op.op = "subscribeFalse" /\ w.err = NoErr THEN silent \cup {w.ret} ELSE silent
  /\ trace' = w.trace
  /\ thrown' = w.err
  /\ returned' = IF op.op = "read" /\ w.err = NoErr THEN w.ret ELSE Undefined
  /\ lastOp' = op
  /\ ops' = ops + 1
  /\ UNCHANGED <<debounced, sinceBoundary, lastTick, ticks>>
  /\ SignalUnchanged

\* the functions a batch is given: up to MaxBatch updates of plain stores
Blocks == UNION {[1..n -> PlainStores] : n \in 1..MaxBatch}

\* the stores and subscriber functions the calls of each specification use
SumStores == {"a", "b", "sum"}
ThrowStores == {"a", "b", "t"}
ChainStores == {"a", "b", "c1", "c2", "d"}
ChainFns == {"f"}
SelStores == {"a", "b", "sum", "sel"}
ClearStores == {"a", "b", "sum", "t"}
TwiceStores == {"a", "twice"}
NestStores == {"a", "b", "c2", "e"}
NestWrites == {"b"}
NestBlocks == UNION {[1..n -> NestWrites] : n \in 1..MaxBatch}

Init ==
  /\ stores = [s \in Stores |->
                 [value |-> IF s \in PlainStores THEN Prim(0) ELSE Undefined,
                  subs |-> <<>>, stop |-> NoStop, started |-> FALSE, starts |-> 0]]
  /\ queue = <<>>
  /\ context = NoCtx
  /\ computeds = [c \in Computeds |-> [value |-> Undefined, unsubs |-> <<>>]]
  /\ pending = [x \in {} |-> 0]
  /\ unsubFns = <<>>
  /\ handles = {}
  /\ silent = {}
  /\ promises = <<>>
  /\ called = {}
  /\ trace = <<>>
  /\ thrown = NoErr
  /\ returned = Undefined
  /\ lastOp = Op("init", NoStore, "", Undefined, 0, <<>>)
  /\ ops = 0
  /\ debounced = [x \in Wrappers |-> [nextArgs |-> NotSet, scheduled |-> 0, invoked |-> <<>>]]
  /\ sinceBoundary = [x \in Wrappers |-> <<>>]
  /\ lastTick = [op |-> "init", wrapper |-> ""]
  /\ ticks = 0
  /\ subscribers = <<>>
  /\ errorListeners = <<>>
  /\ removers = {}
  /\ invoked = <<>>
  /\ settled = ""
  /\ lastSignal = [op |-> "init", listener |-> ""]
  /\ signals = 0

\* u = s.subscribe(f)
Subscribe(s, f) ==
  /\ ops < MaxOps
  /\ \E w \in {subscribe(World, s, FnSub(f), "undefined")} :
        /\ Commit(w, Op("subscribe", s, f, Undefined, IF w.err = NoErr THEN w.ret ELSE 0, <<>>))
        /\ handles' = IF w.err = NoErr THEN handles \cup {w.ret} ELSE handles
        /\ UNCHANGED called

\* u = s.subscribe(f, false)
SubscribeFalse(s, f) ==
  /\ ops < MaxOps
  /\ \E w \in {subscribe(World, s, FnSub(f), "false")} :
        /\ Commit(w, Op("subscribeFalse", s, f, Undefined, 0, <<>>))
        /\ handles' = IF w.err = NoErr THEN handles \cup {w.ret} ELSE handles
        /\ UNCHANGED called

\* p = whenMatches(s, Matches)
WhenMatches(s, uninit) ==
  /\ ops < MaxOps
  /\ Len(promises) < MaxPromises
  /\ Commit(whenMatches(World, s, uninit), Op("whenMatches", s, "", Undefined, 0, <<>>))
  /\ UNCHANGED <<handles, called>>

\* p = afterChange(s)
AfterChange(s) ==
  /\ ops < MaxOps
  /\ Len(promises) < MaxPromises
  /\ Commit(afterChange(World, s), Op("afterChange", s, "", Undefined, 0, <<>>))
  /\ UNCHANGED <<handles, called>>

\* u()
Unsubscribe(u) ==
  /\ ops < MaxOps
  /\ Commit(unsubscribe(World, u), Op("unsubscribe", unsubFns[u][1], unsubFns[u][2][2], Undefined, u, <<>>))
  /\ called' = called \cup {u}
  /\ UNCHANGED handles

\* s.state = v
Write(s, v) ==
  /\ ops < MaxOps
  /\ Commit(set(World, s, v), Op("write", s, "", v, 0, <<>>))
  /\ UNCHANGED <<handles, called>>

\* s.state
Read(s) ==
  /\ ops < MaxOps
  /\ Commit(get(World, s), Op("read", s, "", Undefined, 0, <<>>))
  /\ UNCHANGED <<handles, called>>

\* batch(() => { s1.update(Inc); s2.update(Inc) })
Batch(body) ==
  /\ ops < MaxOps
  /\ Commit(queueFn(World, [kind |-> "block", s |-> NoStore, body |-> body, un |-> 0], TRUE),
            Op("batch", NoStore, "", Undefined, 0, body))
  /\ UNCHANGED <<handles, called>>

\* clearAllContext()
ClearAllContext ==
  /\ ops < MaxOps
  /\ Commit(clearAllContext(World), Op("clearAllContext", NoStore, "", Undefined, 0, <<>>))
  /\ UNCHANGED <<handles, called>>

\* batch(() => { s1.update(Inc); s2.update(Inc); u() })
BatchDetach(body, u) ==
  /\ ops < MaxOps
  /\ Commit(queueFn(World, [kind |-> "block", s |-> NoStore, body |-> body, un |-> u], TRUE),
            Op("batchDetach", unsubFns[u][1], unsubFns[u][2][2], Undefined, u, body))
  /\ called' = called \cup {u}
  /\ UNCHANGED handles

Next ==
  \/ \E s \in SumStores, f \in Fns : Subscribe(s, f)
  \/ \E u \in handles : Unsubscribe(u)
  \/ \E s \in PlainStores, v \in WriteVals : Write(s, v)
  \/ \E s \in SumStores : Read(s)
  \/ \E body \in Blocks : Batch(body)

Spec == Init /\ [][Next]_vars

NextChain ==
  \/ \E s \in ChainStores, f \in ChainFns : Subscribe(s, f)
  \/ \E u \in handles : Unsubscribe(u)
  \/ \E s \in PlainStores, v \in WriteVals : Write(s, v)
  \/ \E s \in ChainStores : Read(s)
  \/ \E body \in Blocks : Batch(body)

SpecChain == Init /\ [][NextChain]_vars

\* the calls of SpecChain, and batches that detach
NextDetach ==
  \/ \E s \in ChainStores, f \in ChainFns : Subscribe(s, f)
  \/ \E u \in handles : Unsubscribe(u)
  \/ \E s \in PlainStores, v \in WriteVals : Write(s, v)
  \/ \E s \in ChainStores : Read(s)
  \/ \E body \in Blocks : Batch(body)
  \/ \E body \in Blocks, u \in handles : BatchDetach(body, u)

SpecDetach == Init /\ [][NextDetach]_vars

\* the calls of Spec on a computed whose compute function can throw
NextThrow ==
  \/ \E s \in ThrowStores, f \in ChainFns : Subscribe(s, f)
  \/ \E u \in handles : Unsubscribe(u)
  \/ \E s \in PlainStores, v \in WriteVals : Write(s, v)
  \/ \E s \in ThrowStores : Read(s)
  \/ \E body \in Blocks : Batch(body)

SpecThrow == Init /\ [][NextThrow]_vars

\* the calls of Spec with one subscriber function, subscribe(cb, false) and
\* afterChange
NextSilent ==
  \/ \E s \in SumStores, f \in ChainFns : Subscribe(s, f)
  \/ \E s \in SumStores, f \in ChainFns : SubscribeFalse(s, f)
  \/ \E s \in SumStores : AfterChange(s)
  \/ \E u \in handles : Unsubscribe(u)
  \/ \E s \in PlainStores, v \in WriteVals : Write(s, v)
  \/ \E body \in Blocks : Batch(body)

SpecSilent == Init /\ [][NextSilent]_vars

\* the calls of Spec with one subscriber function and whenMatches
NextWhen ==
  \/ \E s \in SumStores, f \in ChainFns : Subscribe(s, f)
  \/ \E s \in SumStores, e \in UninitErrors : WhenMatches(s, e)
  \/ \E u \in handles : Unsubscribe(u)
  \/ \E s \in PlainStores, v \in WriteVals : Write(s, v)
  \/ \E body \in Blocks : Batch(body)

SpecWhen == Init /\ [][NextWhen]_vars

\* the calls of Spec with one subscriber function, on a computed that reads
\* sum only while a >= 1
NextSel ==
  \/ \E s \in SelStores, f \in ChainFns : Subscribe(s, f)
  \/ \E u \in handles : Unsubscribe(u)
  \/ \E s \in PlainStores, v \in WriteVals : Write(s, v)
  \/ \E s \in SelStores : Read(s)
  \/ \E body \in Blocks : Batch(body)

SpecSel == Init /\ [][NextSel]_vars

\* the calls of SpecThrow, without reads, on sum and t, and clearAllContext
NextClear ==
  \/ \E s \in ClearStores, f \in ChainFns : Subscribe(s, f)
  \/ \E u \in handles : Unsubscribe(u)
  \/ \E s \in PlainStores, v \in WriteVals : Write(s, v)
  \/ \E body \in Blocks : Batch(body)
  \/ ClearAllContext

SpecClear == Init /\ [][NextClear]_vars

\* the calls of Spec on a computed that reads the same store twice in a run
NextTwice ==
  \/ \E s \in TwiceStores, f \in Fns : Subscribe(s, f)
  \/ \E u \in handles : Unsubscribe(u)
  \/ \E s \in PlainStores, v \in WriteVals : Write(s, v)
  \/ \E s \in TwiceStores : Read(s)
  \/ \E body \in Blocks : Batch(body)

SpecTwice == Init /\ [][NextTwice]_vars

\* the calls of SpecChain on a computed that reads a computed of a computed
\* and then a plain store; the writes are to that plain store
NextNest ==
  \/ \E s \in NestStores, f \in ChainFns : Subscribe(s, f)
  \/ \E u \in handles : Unsubscribe(u)
  \/ \E s \in NestWrites, v \in WriteVals : Write(s, v)
  \/ \E s \in NestStores : Read(s)
  \/ \E body \in NestBlocks : Batch(body)

SpecNest == Init /\ [][NextNest]_vars

StoreUnchanged ==
  UNCHANGED <<stores, queue, context, computeds, pending, unsubFns, handles, silent, promises,
              called, trace, thrown, returned, lastOp, ops>>

DebounceUnchanged == UNCHANGED <<debounced, sinceBoundary, lastTick, ticks>>

\* x(...args) for the debounced wrapper x
CallWrapper(x, args) ==
  /\ ticks < MaxTicks
  /\ debounced' = [debounced EXCEPT ![x] = wrapper(@, args)]
  /\ sinceBoundary' = [sinceBoundary EXCEPT ![x] = Append(@, args)]
  /\ lastTick' = [op |-> "call", wrapper |-> x]
  /\ ticks' = ticks + 1
  /\ StoreUnchanged
  /\ SignalUnchanged

\* the scheduling boundary of wrapper x passes: the next microtask, timeout
\* or animation frame runs the callbacks that were scheduled
Boundary(x) ==
  /\ ticks < MaxTicks
  /\ debounced' = [debounced EXCEPT ![x] = runCallbacks(@)]
  /\ sinceBoundary' = [sinceBoundary EXCEPT ![x] = <<>>]
  /\ lastTick' = [op |-> "boundary", wrapper |-> x]
  /\ ticks' = ticks + 1
  /\ StoreUnchanged
  /\ SignalUnchanged

NextDebounce ==
  \/ \E x \in Wrappers, args \in ArgLists : CallWrapper(x, args)
  \/ \E x \in Wrappers : Boundary(x)

SpecDebounce == Init /\ [][NextDebounce]_vars

\* what every call of the signal does to the bookkeeping
SignalCall(op, l) ==
  /\ signals < MaxSignals
  /\ lastSignal' = [op |-> op, listener |-> l]
  /\ signals' = signals + 1
  /\ StoreUnchanged
  /\ DebounceUnchanged

\* u = onEvent(l)
SignalSubscribe(l) ==
  /\ SignalCall("subscribe", l)
  /\ subscribers' = AddLast(subscribers, l)
  /\ removers' = removers \cup {<<"subscribers", l>>}
  /\ invoked' = <<>>
  /\ settled' = ""
  /\ UNCHANGED errorListeners

\* u = onEvent.error(l)
SignalError(l) ==
  /\ SignalCall("error", l)
  /\ errorListeners' = AddLast(errorListeners, l)
  /\ removers' = removers \cup {<<"errorListeners", l>>}
  /\ invoked' = <<>>
  /\ settled' = ""
  /\ UNCHANGED subscribers

\* u(), for an unsubscribe function the signal returned
SignalUnsubscribe(u) ==
  /\ SignalCall("unsubscribe", u[2])
  /\ subscribers' = IF u[1] = "subscribers"
                     THEN SelectSeq(subscribers, LAMBDA x : x # u[2]) ELSE subscribers
  /\ errorListeners' = IF u[1] = "errorListeners"
                        THEN SelectSeq(errorListeners, LAMBDA x : x # u[2]) ELSE errorListeners
  /\ invoked' = <<>>
  /\ settled' = ""
  /\ UNCHANGED removers

\* onEvent.clear()
SignalClear ==
  /\ SignalCall("clear", "")
  /\ subscribers' = <<>>
  /\ errorListeners' = <<>>
  /\ invoked' = <<>>
  /\ settled' = ""
  /\ UNCHANGED removers

\* await onEvent.emit(data)
SignalEmit ==
  /\ SignalCall("emit", "")
  /\ invoked' = map(subscribers, "data", <<>>).invoked
  /\ settled' = map(subscribers, "data", <<>>).settled
  /\ UNCHANGED <<subscribers, errorListeners, removers>>

\* await onEvent.emitError(err)
SignalEmitError ==
  /\ SignalCall("emitError", "")
  /\ invoked' = map(errorListeners, "error", <<>>).invoked
  /\ settled' = map(errorListeners, "error", <<>>).settled
  /\ UNCHANGED <<subscribers, errorListeners, removers>>

NextSignal ==
  \/ \E l \in Listeners : SignalSubscribe(l)
  \/ \E l \in Listeners : SignalError(l)
  \/ \E u \in removers : SignalUnsubscribe(u)
  \/ SignalClear
  \/ SignalEmit
  \/ SignalEmitError

SpecSignal == Init /\ [][NextSignal]_vars

----------------------------------------------------------------------------
(* What a call did, read off its trace *)

\* a call has just been made
Stepped == ops' = ops + 1

\* the calls of subscriber sub for a change of store s
Calls(tr, sub, s) == SelectSeq(tr, LAMBDA e : e.ev = "call" /\ e.sub = sub /\ e.s = s)

\* the runs of the compute function of c
Runs(tr, c) == SelectSeq(tr, LAMBDA e : e.ev = "run" /\ e.s = c)

EventsOf(tr, ev, s) == SelectSeq(tr, LAMBDA e : e.ev = ev /\ e.s = s)

IndexOf(tr, ev) == CHOOSE i \in 1..Len(tr) : tr[i].ev = ev

HasEvent(tr, ev) == \E i \in 1..Len(tr) : tr[i].ev = ev

\* the stores on which f is registered
RegisteredOn(st, f) == {s \in Stores : HasSub(st[s].subs, FnSub(f))}

CoreUnchanged == UNCHANGED <<stores, queue, context, computeds, pending, unsubFns>>

----------------------------------------------------------------------------
(* C1 *)

\* C1: a write of a value equal to the current one under set()'s rule (=== or
\* equal valueOf()) calls no subscriber and no invalidate callback, enqueues
\* nothing, and leaves the value, the subscriber maps and the queue as they were
Thm_C1_EqualWriteNoOp ==
  [][(Stepped /\ lastOp'.op = "write"
        /\ SameValue(stores[lastOp'.s].value, lastOp'.v))
     => (trace' = <<>> /\ thrown' = NoErr /\ CoreUnchanged)]_vars

\* an object was written over the number it wraps, on a store that has a plain
\* subscriber and a computed's subscriber
Wit_C1_EqualWriteNoOp ==
  /\ lastOp.op = "write"
  /\ lastOp.v # stores[lastOp.s].value
  /\ SameValue(stores[lastOp.s].value, lastOp.v)
  /\ \E i, j \in 1..Len(stores[lastOp.s].subs) :
       stores[lastOp.s].subs[i].inv /\ ~stores[lastOp.s].subs[j].inv
  /\ trace = <<>>

----------------------------------------------------------------------------
(* C2 *)

----------------------------------------------------------------------------
(* C3 *)

\* C3: a write, outside any batch, of a value that is not equal to the current
\* one calls every plain subscriber registered on the store exactly once for
\* that store, with the new value, before the write returns
Thm_C3_WriteNotifiesAll ==
  [][(Stepped /\ lastOp'.op = "write"
        /\ ~SameValue(stores[lastOp'.s].value, lastOp'.v))
     => \A f \in Fns :
          HasSub(stores[lastOp'.s].subs, FnSub(f))
          => /\ Len(Calls(trace', FnSub(f), lastOp'.s)) = 1
             /\ Calls(trace', FnSub(f), lastOp'.s)[1].val = lastOp'.v
             /\ thrown' = NoErr]_vars

\* a write reached two plain subscribers of the store
Wit_C3_WriteNotifiesAll ==
  /\ lastOp.op = "write"
  /\ \A f \in Fns :
       /\ HasSub(stores[lastOp.s].subs, FnSub(f))
       /\ Len(Calls(trace, FnSub(f), lastOp.s)) = 1
       /\ Calls(trace, FnSub(f), lastOp.s)[1].val = lastOp.v

----------------------------------------------------------------------------
(* C4 *)

\* the block updates a and b once each
UpdatesBoth(body) == Len(body) = 2 /\ SeqRange(body) = {"a", "b"}

\* C4 as stated: after a batch that writes new values to a and to b, every live
\* computed that reads a and b has run exactly once, and that run read the new
\* a and the new b
Cex_C4_OneRunPerBatch ==
  (lastOp.op = "batch" /\ UpdatesBoth(lastOp.body))
  => \A c \in {"sum", "d"} :
       stores[c].subs # <<>>
       => /\ Len(Runs(trace, c)) = 1
          /\ Runs(trace, c)[1].reads[1] = stores["a"].value
          /\ Runs(trace, c)[1].reads[2] = stores["b"].value

----------------------------------------------------------------------------
(* C5 *)

\* f is the one subscriber of sum and is registered on no other store
OnlySubscriberOfSum(st, f) ==
  /\ SubKeys(st["sum"].subs) = <<FnSub(f)>>
  /\ RegisteredOn(st, f) = {"sum"}

NewSum(st) == Prim(Num(st["a"].value) + Num(st["b"].value))

\* the calls of f in tr, all made after the block has returned, are vs
CalledAfterBlock(tr, f, vs) ==
  /\ [i \in 1..Len(Calls(tr, FnSub(f), "sum")) |-> Calls(tr, FnSub(f), "sum")[i].val] = vs
  /\ \A i \in 1..Len(tr) :
       (tr[i].ev = "call" /\ tr[i].sub = FnSub(f)) => IndexOf(tr, "fnEnd") < i

----------------------------------------------------------------------------
(* C6 *)

\* C6 as stated, counting the calls of a function separately for each store it
\* is registered on: a batch calls each subscriber function at most once
Cex_C6_AtMostOncePerBatch ==
  lastOp.op = "batch"
  => \A f \in Fns, s \in Stores : Len(Calls(trace, FnSub(f), s)) <= 1

----------------------------------------------------------------------------
(* C7 *)

\* C7: from the start to the return of the function of a root batch no
\* subscriber and no compute function is called, and the sentinel is still the
\* head of the queue when the function returns
Thm_C7_NothingRunsInBlock ==
  lastOp.op = "batch"
  => /\ HasEvent(trace, "fnBegin") /\ HasEvent(trace, "fnEnd")
     /\ trace[IndexOf(trace, "fnBegin")].n = 1
        => /\ trace[IndexOf(trace, "fnEnd")].n = 1
           /\ \A i \in IndexOf(trace, "fnBegin")..IndexOf(trace, "fnEnd") :
                trace[i].ev \notin {"call", "run"}

\* a root batch enqueued a plain subscriber and a computed inside the block and
\* delivered to both after it
Wit_C7_NothingRunsInBlock ==
  /\ lastOp.op = "batch"
  /\ HasEvent(trace, "fnEnd")
  /\ trace[IndexOf(trace, "fnBegin")].n = 1
  /\ \E i, j \in IndexOf(trace, "fnBegin")..IndexOf(trace, "fnEnd") :
       /\ trace[i].ev = "enqueue" /\ trace[i].sub[1] = "fn"
       /\ trace[j].ev = "enqueue" /\ trace[j].sub[1] = "comp"
  /\ \E i, j \in IndexOf(trace, "fnEnd")..Len(trace) :
       /\ trace[i].ev = "call" /\ trace[i].sub[1] = "fn"
       /\ trace[j].ev = "run"

----------------------------------------------------------------------------
(* C8 *)

\* C8: when a call takes a store with a start function from some subscribers
\* to none, the cleanup returned by its latest start call is called exactly
\* once and the stop handle is cleared; when a call takes it from no
\* subscriber to some, its start function is called exactly once
Thm_C8_StopOnceStartOnce ==
  [][\A s \in Stores :
       (Stepped /\ StartReturnsCleanup(s))
       => /\ (stores[s].subs # <<>> /\ stores'[s].subs = <<>>)
             => /\ Len(EventsOf(trace', "stop", s)) = 1
                /\ EventsOf(trace', "stop", s)[1].n = stores[s].starts
                /\ EventsOf(trace', "start", s) = <<>>
                /\ stores'[s].stop = NoStop
          /\ (stores[s].subs = <<>> /\ stores'[s].subs # <<>>)
             => /\ Len(EventsOf(trace', "start", s)) = 1
                /\ EventsOf(trace', "stop", s) = <<>>
                /\ stores'[s].starts = stores[s].starts + 1
                /\ stores'[s].stop = stores'[s].starts]_vars

\* a store that had been stopped has been subscribed to and started again
Wit_C8_StopOnceStartOnce ==
  /\ lastOp.op = "subscribe"
  /\ StartReturnsCleanup(lastOp.s)
  /\ called # {}
  /\ Len(EventsOf(trace, "start", lastOp.s)) = 1
  /\ stores[lastOp.s].starts = 2
  /\ stores[lastOp.s].stop = 2

----------------------------------------------------------------------------
(* C9 *)

\* C9: whenever a start function is called the store holds no stop handle (it
\* is not started) and has no subscriber but, in subscribe, the one being
\* registered; so the count was 0 before every start made by subscribe
Thm_C9_NoStartWhileStarted ==
  \A i \in 1..Len(trace) :
    trace[i].ev = "start" => (trace[i].m = NoStop /\ trace[i].n \in {0, 1})

\* a second subscriber was registered on a started store without a start call
Wit_C9_NoStartWhileStarted ==
  /\ lastOp.op = "subscribe"
  /\ Len(stores[lastOp.s].subs) = 2
  /\ stores[lastOp.s].starts = 1
  /\ stores[lastOp.s].stop # NoStop
  /\ EventsOf(trace, "start", lastOp.s) = <<>>
  /\ Len(Calls(trace, FnSub(lastOp.f), lastOp.s)) = 1

----------------------------------------------------------------------------
(* C10 *)

\* C10 as stated: a second call of an unsubscribe function throws nothing,
\* calls no stop handle and changes nothing
Cex_C10_SecondUnsubscribeNoOp ==
  [][(Stepped /\ lastOp'.op = "unsubscribe" /\ lastOp'.u \in called)
     => (thrown' = NoErr /\ ~HasEvent(trace', "stop") /\ CoreUnchanged)]_vars

----------------------------------------------------------------------------
(* C11 *)

\* the value store s stands for: the value of a plain store, and for a
\* computed its compute function applied to what its dependencies stand for
RECURSIVE Settled(_, _)
Settled(st, s) ==
  IF s \in PlainStores THEN st[s].value
  ELSE FnResult(s, [i \in 1..Len(Reads(s)) |-> Settled(st, Reads(s)[i])])

\* what the stores the compute function of c reads stand for
DepVals(st, c) == [i \in 1..Len(Reads(c)) |-> Settled(st, Reads(c)[i])]

\* the stores in which an activation of computed c is registered
SubscribedTo(st, c) ==
  {x \in Stores : \E i \in 1..Len(st[x].subs) :
                    st[x].subs[i].sub[1] = "comp" /\ st[x].subs[i].sub[2] = c}

----------------------------------------------------------------------------
(* C12 *)

\* C12: a direct read of the state of a computed that has a subscriber runs
\* no compute function and changes nothing, and returns the value of the
\* computed's last run, which is the compute function applied to the current
\* values of its dependencies when the queue is empty
Thm_C12_LiveReadIsCached ==
  [][(Stepped /\ lastOp'.op = "read" /\ lastOp'.s \in Computeds
        /\ Len(stores[lastOp'.s].subs) > 0)
     => /\ thrown' = NoErr
        /\ trace' = <<>>
        /\ CoreUnchanged
        /\ returned' = computeds[lastOp'.s].value
        /\ (queue = <<>> => returned' = FnResult(lastOp'.s, DepVals(stores, lastOp'.s)))]_vars

\* d was read while subscribed, after a write to a dependency
Wit_C12_LiveReadIsCached ==
  /\ lastOp.op = "read"
  /\ lastOp.s = "d"
  /\ Len(stores["d"].subs) > 0
  /\ stores["d"].starts = 1
  /\ trace = <<>>
  /\ returned = Prim(4)

----------------------------------------------------------------------------
(* C13 *)

----------------------------------------------------------------------------
(* C14 *)

\* a computed that has no subscribers is subscribed to no store
DormantHoldsNothing(st) ==
  \A c \in Computeds : Len(st[c].subs) = 0 => SubscribedTo(st, c) = {}

\* C14 as stated: when a call has returned, a computed that has no subscribers
\* is subscribed to no store, and a write does not run the compute function
\* of a computed that has no subscribers
Cex_C14_DormantHoldsNothing ==
  [][Stepped
     => /\ DormantHoldsNothing(stores')
        /\ (lastOp'.op = "write"
             => \A c \in Computeds : Len(stores[c].subs) = 0 => Runs(trace', c) = <<>>)]_vars

----------------------------------------------------------------------------
(* C15 *)

\* the value of c2 that a run of d read was computed from the a it read
ReadSettled(reads) == Num(reads[3]) = Num(reads[1]) + 2

\* C15 as stated: d reads a directly and through c1 and c2; during a write to
\* a, no run of d reads a value of c2 computed from the old a, and the
\* subscriber of d (registered on d alone) is called with no other value than
\* the settled one
Cex_C15_NoGlitch ==
  [][(Stepped /\ lastOp'.op = "write" /\ RegisteredOn(stores, "f") = {"d"})
     => \A i \in 1..Len(trace') :
          /\ (trace'[i].ev = "run" /\ trace'[i].s = "d") => ReadSettled(trace'[i].reads)
          /\ (trace'[i].ev = "call" /\ trace'[i].s = "d" /\ trace'[i].sub[1] = "fn")
             => trace'[i].val = Settled(stores', "d")]_vars

----------------------------------------------------------------------------
(* C16 *)

\* C16 as stated: a call during which a compute function threw ends with that
\* exception, whether it is the subscribe or the read that started the
\* computed or the write or batch whose drain delivered to it; after the
\* throw nothing happens but the stops of the stores that the finally block of
\* sync unsubscribes from
Cex_C16_ComputeThrowPropagates ==
  [][(Stepped /\ HasEvent(trace', "throw"))
     => /\ thrown' = Error
        /\ \A i \in (IndexOf(trace', "throw") + 1)..Len(trace') : trace'[i].ev = "stop"
        /\ lastOp'.op \in {"subscribe", "read", "write", "batch"}]_vars

----------------------------------------------------------------------------
(* C17 *)

\* the unsubscribe functions subscribe(cb, false) returned for store s that
\* still stand for a registration
SilentOn(st, s) ==
  {u \in silent : /\ unsubFns[u][1] = s
                  /\ HasSub(st[s].subs, unsubFns[u][2])
                  /\ SubEntry(st[s].subs, unsubFns[u][2]).un = u}

\* the number of updates of store s in a block
RECURSIVE Count(_, _)
Count(body, s) ==
  IF body = <<>> THEN 0 ELSE (IF Head(body) = s THEN 1 ELSE 0) + Count(Tail(body), s)

\* subscribe(cb, false) does not call cb
SilentSubscribe ==
  (lastOp'.op = "subscribeFalse")
  => /\ thrown' = NoErr
     /\ SelectSeq(trace', LAMBDA e : e.ev = "call" /\ e.sub = FnSub(lastOp'.f)) = <<>>
     /\ HasSub(stores'[lastOp'.s].subs, FnSub(lastOp'.f))

\* a write of a value that is not equal to the current one calls every cb
\* registered with subscribe(cb, false) once, with the new value
SilentWrite ==
  (lastOp'.op = "write" /\ ~SameValue(stores[lastOp'.s].value, lastOp'.v))
  => \A u \in SilentOn(stores, lastOp'.s) :
       /\ thrown' = NoErr
       /\ Len(Calls(trace', unsubFns[u][2], lastOp'.s)) = 1
       /\ Calls(trace', unsubFns[u][2], lastOp'.s)[1].val = lastOp'.v

\* a cb that subscribe(cb, false) registered and that has been unsubscribed
\* from every store is not called by a write or a batch
SilentUnsubscribed ==
  \A u \in silent :
    (lastOp'.op \in {"write", "batch"} /\ RegisteredOn(stores, unsubFns[u][2][2]) = {})
    => SelectSeq(trace', LAMBDA e : e.ev = "call" /\ e.sub = unsubFns[u][2]) = <<>>

\* C17 as stated: subscribe(cb, false) does not call cb, and every later
\* write of a non-equal value to the store, by an assignment or by an update
\* in a batch, calls cb with the new value, until cb is unsubscribed
Cex_C17_SilentUntilWrite ==
  [][Stepped
     => /\ SilentSubscribe
        /\ SilentWrite
        /\ SilentUnsubscribed
        /\ (lastOp'.op = "batch"
            => \A s \in PlainStores : \A u \in SilentOn(stores, s) :
                 Len(Calls(trace', unsubFns[u][2], s)) = Count(lastOp'.body, s))]_vars

\* C17 amended: subscribe(cb, false) does not call cb; every later write of a
\* non-equal value to the store outside a batch calls cb once with the new
\* value; a batch calls cb at most once for the store, after its block; an
\* unsubscribed cb is not called
Thm_C17_SilentUntilWrite ==
  [][Stepped
     => /\ SilentSubscribe
        /\ SilentWrite
        /\ SilentUnsubscribed
        /\ (lastOp'.op = "batch"
            => \A s \in PlainStores : \A u \in SilentOn(stores, s) :
                 /\ Len(Calls(trace', unsubFns[u][2], s)) <= 1
                 /\ \A i \in 1..Len(trace') :
                      (trace'[i].ev = "call" /\ trace'[i].sub = unsubFns[u][2])
                      => i > IndexOf(trace', "fnEnd"))]_vars

\* a cb registered with subscribe(cb, false), not called then, was called by
\* a later write with the value written
Wit_C17_SilentUntilWrite ==
  /\ lastOp.op = "write"
  /\ \E u \in silent :
       /\ unsubFns[u][1] = lastOp.s
       /\ Len(Calls(trace, unsubFns[u][2], lastOp.s)) = 1
       /\ Calls(trace, unsubFns[u][2], lastOp.s)[1].val = lastOp.v
       /\ lastOp.v = Prim(1)

----------------------------------------------------------------------------
(* C19 *)

\* the calls of the subscriber of promise p
PromiseCalls(tr, p) == SelectSeq(tr, LAMBDA e : e.ev = "call" /\ e.sub = PromiseSub(p))

\* the subscriber of promise p is registered on the promise's store
PromiseSubscribed(st, prom, p) == HasSub(st[prom[p].s].subs, PromiseSub(p))

\* C19: afterChange(s) returns a pending promise without calling its
\* subscriber; a pending promise stays pending and subscribed as long as the
\* value of s is not changed; the first call that changes s delivers a value
\* to its subscriber once, the promise is resolved with that value (the value
\* written, for a write to s) and its subscription is removed; the
\* subscriber of a resolved promise is not called again
Thm_C19_AfterChangeNextValue ==
  [][Stepped
     => /\ (lastOp'.op = "afterChange"
            => /\ thrown' = NoErr
               /\ Len(promises') = Len(promises) + 1
               /\ promises'[Len(promises')].state = "pending"
               /\ PromiseCalls(trace', Len(promises')) = <<>>
               /\ PromiseSubscribed(stores', promises', Len(promises')))
        /\ \A p \in 1..Len(promises) :
             IF promises[p].state # "pending"
             THEN /\ PromiseCalls(trace', p) = <<>>
                  /\ promises'[p] = promises[p]
                  /\ ~PromiseSubscribed(stores', promises', p)
             ELSE IF PromiseCalls(trace', p) = <<>>
             THEN /\ promises'[p] = promises[p]
                  /\ PromiseSubscribed(stores', promises', p)
                  /\ stores'[promises[p].s].value = stores[promises[p].s].value
             ELSE /\ Len(PromiseCalls(trace', p)) = 1
                  /\ PromiseCalls(trace', p)[1].s = promises[p].s
                  /\ promises'[p].state = "resolved"
                  /\ promises'[p].val = PromiseCalls(trace', p)[1].val
                  /\ lastOp'.op = "write" => promises'[p].val = stores'[promises[p].s].value
                  /\ lastOp'.op = "write" /\ lastOp'.s = promises[p].s
                     => promises'[p].val = lastOp'.v
                  /\ ~PromiseSubscribed(stores', promises', p)
                  /\ thrown' = NoErr]_vars

\* a promise of afterChange(a), made when a was 1, was resolved with the 0
\* that the next write stored, and a later write did not call its subscriber
Wit_C19_AfterChangeNextValue ==
  /\ lastOp.op = "write"
  /\ lastOp.s = "a"
  /\ Len(promises) = 1
  /\ promises[1].s = "a"
  /\ promises[1].state = "resolved"
  /\ promises[1].val = Prim(0)
  /\ stores["a"].value # Prim(0)
  /\ PromiseCalls(trace, 1) = <<>>

----------------------------------------------------------------------------
(* C18 *)

\* C18 as stated: whenMatches(s, Matches) called when the value of s
\* satisfies Matches returns a promise resolved with that value, whose
\* subscription is removed; otherwise the promise is pending, the first value
\* delivered to its subscriber that satisfies Matches resolves it, and its
\* subscription is then removed
Cex_C18_WhenMatchesResolves ==
  [][Stepped
     => /\ (lastOp'.op = "whenMatches"
            => /\ thrown' = NoErr
               /\ Len(promises') = Len(promises) + 1
               /\ IF Matches(stores'[lastOp'.s].value)
                  THEN /\ promises'[Len(promises')].state = "resolved"
                       /\ promises'[Len(promises')].val = stores'[lastOp'.s].value
                       /\ ~PromiseSubscribed(stores', promises', Len(promises'))
                  ELSE /\ promises'[Len(promises')].state = "pending"
                       /\ PromiseSubscribed(stores', promises', Len(promises')))
        /\ \A p \in 1..Len(promises) :
             (promises[p].state = "pending"
                /\ \E i \in 1..Len(PromiseCalls(trace', p)) : Matches(PromiseCalls(trace', p)[i].val))
             => /\ promises'[p].state = "resolved"
                /\ Matches(promises'[p].val)
                /\ ~PromiseSubscribed(stores', promises', p)
                /\ thrown' = NoErr]_vars

----------------------------------------------------------------------------
(* C20 *)

\* C20 as stated: when the boundary of a wrapper passes after one or more
\* calls of the wrapper, fn is invoked exactly once, with the arguments of
\* the last of those calls; and it is not invoked otherwise
Cex_C20_DebounceInvokesOnce ==
  [][(ticks' = ticks + 1 /\ lastTick'.op = "boundary")
     => LET x == lastTick'.wrapper
        IN IF sinceBoundary[x] # <<>>
           THEN debounced'[x].invoked =
                  Append(debounced[x].invoked, sinceBoundary[x][Len(sinceBoundary[x])])
           ELSE debounced'[x].invoked = debounced[x].invoked]_vars

----------------------------------------------------------------------------
(* C21 *)

\* the number of calls in inv of listener l
Invocations(inv, l) == Len(SelectSeq(inv, LAMBDA e : e.listener = l))

\* the call invoked each listener of the set registered, and no other function,
\* once, with a value of kind arg
InvokedExactly(inv, registered, arg) ==
  /\ \A l \in Listeners : Invocations(inv, l) = IF l \in SeqRange(registered) THEN 1 ELSE 0
  /\ \A i \in 1..Len(inv) : inv[i].arg = arg

\* C21 as stated: emit invokes each registered data subscriber once and
\* nothing else; emitError invokes each registered error listener once and
\* nothing else
Cex_C21_EmitReachesRegistered ==
  [][(signals' = signals + 1)
     => /\ (lastSignal'.op = "emit" => InvokedExactly(invoked', subscribers, "data"))
        /\ (lastSignal'.op = "emitError" => InvokedExactly(invoked', errorListeners, "error"))]_vars

----------------------------------------------------------------------------
(* C22 *)

\* C22 as stated: no call enters the drain loop of queue(), with entries to
\* deliver, while another drain loop is active
Cex_C22_OneDrainLoop ==
  \A i \in 1..Len(trace) :
    (trace[i].ev = "drainBegin" /\ trace[i].m > 0) => trace[i].n = 1

----------------------------------------------------------------------------
(* C23 *)

\* the stores a run of c that read the values vals has read
ReadStores(c, vals) == {Reads(c)[i] : i \in 1..Len(vals)}

\* the stores of a vector of registrations
RegisteredIn(regs) == {StoreSeq[x] : x \in {y \in 1..Len(StoreSeq) : regs[y] # 0}}

\* the index of the last event ev of subscriber sub before the i-th of tr
LastBefore(tr, i, ev, sub) ==
  CHOOSE j \in 1..(i - 1) :
    /\ tr[j].ev = ev /\ tr[j].sub = sub
    /\ \A k \in (j + 1)..(i - 1) : ~(tr[k].ev = ev /\ tr[k].sub = sub)

\* C23: when a sync of a computed that has subscribers has completed, the
\* stores on which the activation is registered are exactly the stores its
\* run read, and its registration on a store that it was registered on before
\* the run and read again is the one it had (the same unsubscribe closure)
Thm_C23_DependenciesAreReads ==
  \A i \in 1..Len(trace) :
    (trace[i].ev = "synced" /\ trace[i].n > 0)
    => LET run == trace[LastBefore(trace, i, "run", trace[i].sub)]
           before == trace[LastBefore(trace, i, "sync", trace[i].sub)].reads
       IN /\ RegisteredIn(trace[i].reads) = ReadStores(trace[i].s, run.reads)
          /\ \A x \in 1..Len(StoreSeq) :
               (before[x] # 0 /\ trace[i].reads[x] # 0) => trace[i].reads[x] = before[x]

\* a write took a from 1 to 0 while sel was subscribed: its run read a alone,
\* the registration on sum was dropped and the one on a kept; and before that
\* a write had made it read sum for the first time
Wit_C23_DependenciesAreReads ==
  /\ lastOp.op = "write"
  /\ lastOp.s = "a"
  /\ stores["sel"].subs # <<>>
  /\ \E i \in 1..Len(trace) :
       /\ trace[i].ev = "synced"
       /\ trace[i].s = "sel"
       /\ RegisteredIn(trace[i].reads) = {"a"}
       /\ RegisteredIn(trace[LastBefore(trace, i, "sync", trace[i].sub)].reads) = {"a", "sum"}
  /\ stores["sum"].subs = <<>>
  /\ stores["sel"].starts = 1
  /\ ops = 3

----------------------------------------------------------------------------
(* C24 *)

\* C24 as stated: when a call has returned, normally or with an exception,
\* every run of a compute function it made has put back the context that was
\* current before it, so that the context is null again
Cex_C24_ContextRestored ==
  context = NoCtx

----------------------------------------------------------------------------
(* C25 *)

\* C25 as stated: a batch that writes a plain store twice calls a subscriber
\* registered on that store alone exactly once, with the last value written,
\* which is the value the store holds
Cex_C25_LatestValueDelivered ==
  [][\A s \in PlainStores, f \in Fns :
       (Stepped /\ lastOp'.op = "batch" /\ Count(lastOp'.body, s) = 2
          /\ RegisteredOn(stores, f) = {s})
       => /\ Len(Calls(trace', FnSub(f), s)) = 1
          /\ Calls(trace', FnSub(f), s)[1].val = stores'[s].value]_vars

----------------------------------------------------------------------------
(* C26 *)

\* subscriber sub has an entry in the queue at the i-th event of tr
PendingAt(tr, i, sub) ==
  \E j \in 1..(i - 1) :
    /\ tr[j].ev = "enqueue" /\ tr[j].sub = sub
    /\ \A k \in (j + 1)..(i - 1) : ~(tr[k].ev = "call" /\ tr[k].sub = sub)

\* the first call of sub after the i-th event of tr is made, and before any
\* call of other
CalledBefore(tr, i, sub, other) ==
  \E k \in (i + 1)..Len(tr) :
    /\ tr[k].ev = "call" /\ tr[k].sub = sub
    /\ \A j \in (i + 1)..k : ~(tr[j].ev = "call" /\ tr[j].sub = other)

\* C26 as stated: when a write to a plain store reaches a subscriber function
\* that has an entry in the queue, every other subscriber function that has
\* an entry then, and that no later write reaches, is delivered before it
Cex_C26_TailPromotion ==
  \A i \in 1..Len(trace) : \A f, g \in Fns :
    (thrown = NoErr /\ trace[i].ev = "held" /\ trace[i].sub = FnSub(f)
       /\ trace[i].s \in PlainStores /\ f # g /\ PendingAt(trace, i, FnSub(g))
       /\ \A j \in (i + 1)..Len(trace) : ~(trace[j].ev = "held" /\ trace[j].sub = FnSub(g)))
    => CalledBefore(trace, i, FnSub(g), FnSub(f))

----------------------------------------------------------------------------
(* C27 *)

\* the subscribers that the events of tr name
SubsOf(tr) == {tr[i].sub : i \in 1..Len(tr)}

\* the number of events ev of subscriber sub in tr
EventCount(tr, ev, sub) == Len(SelectSeq(tr, LAMBDA e : e.ev = ev /\ e.sub = sub))

\* every entry inserted during the call was delivered, once, after it was
\* inserted
DeliveredOnce(tr) ==
  /\ \A sub \in SubsOf(tr) \ {noop} :
       EventCount(tr, "call", sub) = EventCount(tr, "enqueue", sub)
  /\ \A i \in 1..Len(tr) :
       tr[i].ev = "enqueue"
       => \E k \in (i + 1)..Len(tr) :
            /\ tr[k].ev = "call" /\ tr[k].sub = tr[i].sub /\ tr[k].val = tr[i].val
            /\ \A j \in (i + 1)..(k - 1) : tr[j].sub = tr[i].sub => tr[j].ev \notin {"call", "enqueue"}

\* C27 as stated: when a write or a batch has returned normally the queue is
\* empty, and every entry inserted during the call has been delivered exactly
\* once
Cex_C27_QueueEmptyAfterDrain ==
  [][(Stepped /\ lastOp'.op \in {"write", "batch"} /\ thrown' = NoErr)
     => (queue' = <<>> /\ DeliveredOnce(trace'))]_vars

----------------------------------------------------------------------------
(* C28 *)

\* the calls in tr are made in the order of the entries of a queue that holds
\* the subscribers q before tr: an insertion appends an entry, a move takes
\* it out and appends it, the sentinel of a root batch is inserted into the
\* empty queue, and each call is of the head entry, which it removes
RECURSIVE InQueueOrder(_, _)
InQueueOrder(q, tr) ==
  IF tr = <<>> THEN TRUE
  ELSE CASE Head(tr).ev = "enqueue" -> InQueueOrder(Append(q, Head(tr).sub), Tail(tr))
         [] Head(tr).ev = "move" ->
              InQueueOrder(Append(SelectSeq(q, LAMBDA x : x # Head(tr).sub), Head(tr).sub), Tail(tr))
         [] Head(tr).ev = "fnBegin" /\ Head(tr).n = 1 -> InQueueOrder(<<noop>>, Tail(tr))
         [] Head(tr).ev = "call" ->
              q # <<>> /\ q[1] = Head(tr).sub /\ InQueueOrder(Tail(q), Tail(tr))
         [] OTHER -> InQueueOrder(q, Tail(tr))

\* the subscribers called in tr, in the order of their first calls
RECURSIVE FirstCalls(_, _)
FirstCalls(tr, seen) ==
  IF tr = <<>> THEN seen
  ELSE FirstCalls(Tail(tr),
                  IF Head(tr).ev = "call" /\ Head(tr).sub # noop THEN AddLast(seen, Head(tr).sub)
                  ELSE seen)

\* all the subscribers of s are plain callbacks
PlainSubscribers(st, s) == \A i \in 1..Len(st[s].subs) : st[s].subs[i].sub[1] = "fn"

\* C28 as stated: a write or batch calls subscribers in the order of their
\* queue entries, and a write to a store, made when the queue is empty,
\* calls the subscribers of the store in the order in which they subscribed
Cex_C28_DrainInInsertionOrder ==
  [][(Stepped /\ lastOp'.op \in {"write", "batch"} /\ thrown' = NoErr)
     => /\ InQueueOrder(Keys(queue), trace')
        /\ (lastOp'.op = "write" /\ queue = <<>>
              /\ ~SameValue(stores[lastOp'.s].value, lastOp'.v))
           => SelectSeq(FirstCalls(trace', <<>>),
                        LAMBDA x : HasSub(stores[lastOp'.s].subs, x))
                = SubKeys(stores[lastOp'.s].subs)]_vars

\* C28 amended: a write or batch calls subscribers in the order of their
\* queue entries, an entry that a computed's invalidate moved counting as
\* inserted when it was moved; and a write to a store whose subscribers are
\* all plain callbacks, made when the queue is empty, calls them in the order
\* in which they subscribed
Thm_C28_DrainInInsertionOrder ==
  [][(Stepped /\ lastOp'.op \in {"write", "batch"} /\ thrown' = NoErr)
     => /\ InQueueOrder(Keys(queue), trace')
        /\ (lastOp'.op = "write" /\ queue = <<>> /\ PlainSubscribers(stores, lastOp'.s)
              /\ ~SameValue(stores[lastOp'.s].value, lastOp'.v))
           => SelectSeq(FirstCalls(trace', <<>>),
                        LAMBDA x : HasSub(stores[lastOp'.s].subs, x))
                = SubKeys(stores[lastOp'.s].subs)]_vars

\* a write to a called g and then f, which had subscribed in that order
Wit_C28_DrainInInsertionOrder ==
  /\ lastOp.op = "write"
  /\ lastOp.s = "a"
  /\ SubKeys(stores["a"].subs) = <<FnSub("g"), FnSub("f")>>
  /\ FirstCalls(trace, <<>>) = <<FnSub("g"), FnSub("f")>>

----------------------------------------------------------------------------
(* C29 *)

\* the activations of computeds that are live: the computed has subscribers
\* and the activation is its latest
LiveActivations(st) ==
  {sub \in DOMAIN pending : st[sub[2]].subs # <<>> /\ sub[3] = st[sub[2]].starts}

\* the number of entries of subscriber sub in the queue q
Entries(q, sub) == Len(SelectSeq(q, LAMBDA e : e[1] = sub))

\* between calls, `pending` of a live activation is the number of its queue
\* entries, 0 or 1
PendingIsEntries ==
  \A sub \in LiveActivations(stores) :
    pending[sub] = Entries(queue, sub) /\ pending[sub] \in {0, 1}

\* in tr, `pending` of a computed's subscriber is incremented (invalidate)
\* exactly when the subscriber is inserted into the queue
CountedAtInsertion(tr) ==
  \A i \in 1..Len(tr) :
    /\ (tr[i].ev = "enqueue" /\ tr[i].sub[1] = "comp")
       => (i < Len(tr) /\ tr[i + 1].ev = "invalidate" /\ tr[i + 1].sub = tr[i].sub)
    /\ tr[i].ev = "invalidate"
       => (i > 1 /\ tr[i - 1].ev = "enqueue" /\ tr[i - 1].sub = tr[i].sub)

\* in tr, a delivery to a computed's subscriber finds `pending` positive, and
\* the compute function runs next exactly when the delivery brings it to zero
RunsAtZero(tr) ==
  \A i \in 1..Len(tr) :
    (tr[i].ev = "call" /\ tr[i].sub[1] = "comp")
    => /\ tr[i].n >= 1
       /\ tr[i].n = 1 <=> (i < Len(tr) /\ tr[i + 1].ev = "sync" /\ tr[i + 1].sub = tr[i].sub)

\* C29 as stated: `pending` of a live computed is incremented exactly when
\* its subscriber is inserted into the queue, a delivery decrements it and
\* never makes it negative, the compute function re-runs exactly on a
\* delivery that brings it to zero, and between calls it is the number of
\* queue entries of the subscriber
Cex_C29_PendingCountsEntries ==
  [][Stepped => (PendingIsEntries' /\ CountedAtInsertion(trace') /\ RunsAtZero(trace'))]_vars

----------------------------------------------------------------------------
(* C30 *)

\* C30: a subscribe(f) on a store on which f is registered returns the
\* unsubscribe function of that registration, creates no other, leaves the
\* subscribers of every store as they were, and calls no start function
Thm_C30_ResubscribeIsIdempotent ==
  [][(Stepped /\ lastOp'.op = "subscribe" /\ HasSub(stores[lastOp'.s].subs, FnSub(lastOp'.f)))
     => /\ thrown' = NoErr
        /\ lastOp'.u = SubEntry(stores[lastOp'.s].subs, FnSub(lastOp'.f)).un
        /\ unsubFns' = unsubFns
        /\ handles' = handles
        /\ stores' = stores
        /\ Len(SelectSeq(stores'[lastOp'.s].subs, LAMBDA e : e.sub = FnSub(lastOp'.f))) = 1
        /\ ~HasEvent(trace', "start")]_vars

\* f subscribed to sum a second time, after g had, and got its first
\* unsubscribe function; sum was started once
Wit_C30_ResubscribeIsIdempotent ==
  /\ lastOp.op = "subscribe"
  /\ lastOp.s = "sum"
  /\ ops = 3
  /\ SubKeys(stores["sum"].subs) = <<FnSub(lastOp.f), FnSub("g")>>
  /\ lastOp.f # "g"
  /\ lastOp.u = stores["sum"].subs[1].un
  /\ stores["sum"].starts = 1
  /\ trace = <<>>

----------------------------------------------------------------------------
(* C31 *)

\* the place of store s in a vector of registrations
PosOf(s) == CHOOSE x \in 1..Len(StoreSeq) : StoreSeq[x] = s

\* the entries of subscriber sub in the subscriber map of a store
EntriesOf(subs, sub) == SelectSeq(subs, LAMBDA e : e.sub = sub)

\* the events ev of store s among the i-th to the j-th of tr
Within(tr, i, j, ev, s) == {k \in i..j : tr[k].ev = ev /\ tr[k].s = s}

\* the cleanup the start call of store s at the k-th event of tr returned, s
\* having been started n times before the call that tr records
CleanupOf(tr, k, s, n) ==
  IF s \in Computeds \/ StartReturnsCleanup(s)
  THEN n + Cardinality(Within(tr, 1, k, "start", s))
  ELSE NoopStop

\* C31: when a run of a computed has completed, on every store s it read,
\* however often, its subscriber has one registration and the unsubscribe
\* closure of that registration is in the set the run accumulated; the
\* subscriber was not called between the entry of the run and its end; if the
\* run registered the first subscriber of s, the start function of s was
\* called once in the run and its cleanup was not called in the run: it is the
\* stop handle of s, or is called later in the call when s loses its last
\* subscriber.  And a run of a dormant computed whose first store has no
\* subscriber when the run begins does start that store
Thm_C31_TrackedReadRegistersOnce ==
  [][Stepped =>
     /\ \A j \in 1..Len(trace') :
          trace'[j].ev = "synced"
          => LET sub == trace'[j].sub
                 c == trace'[j].s
                 i == LastBefore(trace', j, "sync", sub)
                 run == trace'[LastBefore(trace', j, "run", sub)]
             IN \A s \in ReadStores(c, run.reads) :
                  /\ trace'[j].reads[PosOf(s)] # 0
                  /\ Len(EntriesOf(stores'[s].subs, sub)) <= 1
                  /\ \A k \in i..j : ~(trace'[k].ev = "call" /\ trace'[k].sub = sub)
                  /\ Within(trace', j + 1, Len(trace'), "sync", c) = {}
                     => trace'[j].reads[PosOf(s)] \in SeqRange(computeds'[c].unsubs)
                  /\ \A k \in Within(trace', i, j, "start", s) :
                       trace'[k].n = 1
                       => /\ Within(trace', i, j, "start", s) = {k}
                          /\ Within(trace', k, j, "stop", s) = {}
                          /\ \/ /\ stores'[s].stop = CleanupOf(trace', k, s, stores[s].starts)
                                /\ Len(EntriesOf(stores'[s].subs, sub)) = 1
                             \/ \E x \in Within(trace', j + 1, Len(trace'), "stop", s) :
                                  trace'[x].n = CleanupOf(trace', k, s, stores[s].starts)
     /\ \A c \in Computeds :
          (/\ lastOp'.op \in {"subscribe", "read"}
           /\ lastOp'.s = c
           /\ stores[c].subs = <<>>
           /\ stores[Reads(c)[1]].subs = <<>>
           /\ thrown' = NoErr)
          => /\ Len(trace') >= 3
             /\ trace'[2].ev = "sync"
             /\ trace'[3].ev = "start"
             /\ trace'[3].s = Reads(c)[1]
             /\ trace'[3].n = 1]_vars

\* twice, which reads a two times in a run, was subscribed to while a had no
\* subscriber: its subscriber is registered once on a, a was started once and
\* holds the cleanup, and twice holds the one unsubscribe closure
Wit_C31_TrackedReadRegistersOnce ==
  /\ lastOp.op = "subscribe"
  /\ lastOp.s = "twice"
  /\ \E j \in 1..Len(trace) :
       /\ trace[j].ev = "run"
       /\ trace[j].s = "twice"
       /\ Len(trace[j].reads) = 2
  /\ Cardinality(Within(trace, 1, Len(trace), "start", "a")) = 1
  /\ Within(trace, 1, Len(trace), "stop", "a") = {}
  /\ SubKeys(stores["a"].subs) = <<CompSub("twice", 1)>>
  /\ stores["a"].stop = 1
  /\ computeds["twice"].unsubs = <<stores["a"].subs[1].un>>

----------------------------------------------------------------------------
(* C32 *)

\* C32: a read of `state` of a store that has no subscriber, made with no
\* context set, calls the start function of the store once, although the
\* start function of a reads a.state, and returns the value of the store;
\* when the start function has returned, the cleanup it returned is called
\* once, as the next thing the read does; after the read the store has no
\* subscriber, no stop handle, and is not marked started
Thm_C32_UntrackedReadStartsAndStops ==
  [][\A s \in Stores :
       (Stepped /\ lastOp'.op = "read" /\ lastOp'.s = s /\ stores[s].subs = <<>>
          /\ context = NoCtx)
       => /\ Within(trace', 1, Len(trace'), "start", s) = {1}
          /\ trace'[1].n = 0
          /\ stores'[s].subs = <<>>
          /\ stores'[s].stop = NoStop
          /\ ~stores'[s].started
          /\ \A k \in Within(trace', 1, Len(trace'), "reread", s) :
               trace'[k].val = stores[s].value
          /\ thrown' = NoErr
             => /\ returned' = stores'[s].value
                /\ StartReadsState(s) => Within(trace', 1, Len(trace'), "reread", s) # {}
                /\ \E x \in 2..Len(trace') :
                     /\ Within(trace', 1, Len(trace'), "stop", s) = {x}
                     /\ trace'[x].n = CleanupOf(trace', 1, s, stores[s].starts)
                     /\ trace'[x - 1].s = s
                     /\ trace'[x - 1].ev \in {"start", "reread", "synced"}]_vars

\* a.state was read while a had no subscriber: the start function ran, read
\* a.state itself, and its cleanup was called; nothing else happened
Wit_C32_UntrackedReadStartsAndStops ==
  /\ lastOp.op = "read"
  /\ lastOp.s = "a"
  /\ Len(trace) = 3
  /\ trace[1].ev = "start"
  /\ trace[2].ev = "reread"
  /\ trace[3].ev = "stop"
  /\ trace[3].n = stores["a"].starts
  /\ stores["a"].subs = <<>>
  /\ stores["a"].stop = NoStop
  /\ returned = stores["a"].value
  /\ stores["a"].starts = 2

----------------------------------------------------------------------------
(* C33 *)

\* the runs of tr that began and ended between its i-th and its j-th event
RunsWithin(tr, i, j) ==
  {x \in (i + 1)..(j - 1) : tr[x].ev = "synced" /\ LastBefore(tr, x, "sync", tr[x].sub) > i}

\* the registrations <<store, subscriber>> made since the closures uf existed
NewRegistrations(uf, uf2) == {uf2[x] : x \in (Len(uf) + 1)..Len(uf2)}

\* C33, for the calls made with no context set: the registrations a call
\* makes for the subscriber of a computed D are on stores the function of D
\* reads, never on a store that only the function of a computed C it reads (or
\* of a computed C reads) reads.
\* Every store a run of D has read, the computed C and the stores read after
\* the read of C returned, was registered with the subscriber of D when the
\* run began or has been registered with it by the call.  A run that begins
\* inside another run ends inside it, and a call that returns normally leaves
\* no context set
Thm_C33_ContextFramesNest ==
  [][(Stepped /\ context = NoCtx) =>
     /\ \A r \in NewRegistrations(unsubFns, unsubFns') :
          r[2][1] = "comp" => r[1] \in SeqRange(Reads(r[2][2]))
     /\ \A x \in 1..Len(trace') :
          trace'[x].ev = "run"
          => /\ trace'[x].sub = CompSub(trace'[x].s, trace'[x].sub[3])
             /\ \E i \in 1..(x - 1) : trace'[i].ev = "sync" /\ trace'[i].sub = trace'[x].sub
             /\ \A s \in ReadStores(trace'[x].s, trace'[x].reads) :
                  \/ trace'[LastBefore(trace', x, "sync", trace'[x].sub)].reads[PosOf(s)] # 0
                  \/ <<s, trace'[x].sub>> \in NewRegistrations(unsubFns, unsubFns')
     /\ \A j \in 1..Len(trace') :
          trace'[j].ev = "synced"
          => LET i == LastBefore(trace', j, "sync", trace'[j].sub)
             IN \A x \in (i + 1)..(j - 1) :
                  trace'[x].ev = "sync"
                  => /\ trace'[x].sub # trace'[j].sub
                     /\ \E y \in RunsWithin(trace', i, j) : y > x /\ trace'[y].sub = trace'[x].sub
     /\ thrown' = NoErr => context' = NoCtx]_vars

\* e = c2 + b was subscribed to while nothing else was: the runs of c2 and of
\* c1 took place inside the run of e; a is registered with the subscriber of
\* c1 alone, c1 with that of c2 alone, and c2 and b, which e read after c2
\* had returned, with that of e alone
Wit_C33_ContextFramesNest ==
  /\ lastOp.op = "subscribe"
  /\ lastOp.s = "e"
  /\ \E j \in 1..Len(trace) :
       /\ trace[j].ev = "synced"
       /\ trace[j].s = "e"
       /\ {trace[x].s : x \in RunsWithin(trace, LastBefore(trace, j, "sync", trace[j].sub), j)}
            = {"c1", "c2"}
  /\ SubKeys(stores["a"].subs) = <<CompSub("c1", 1)>>
  /\ SubKeys(stores["c1"].subs) = <<CompSub("c2", 1)>>
  /\ SubKeys(stores["c2"].subs) = <<CompSub("e", 1)>>
  /\ SubKeys(stores["b"].subs) = <<CompSub("e", 1)>>
  /\ context = NoCtx

----------------------------------------------------------------------------
(* C34 *)

\* C34 as stated: a subscriber function is not called for a store after its
\* unsubscribe function for that store has returned: a batch that ends with
\* the call of the unsubscribe function calls it for no change of that store
\* once the block has ended, and no call calls, for a change of a store, a
\* function that is not registered on the store when the call begins, unless
\* it is the call that subscribes it
Cex_C34_NoCallAfterUnsubscribe ==
  [][Stepped =>
     /\ (lastOp'.op = "batchDetach" /\ HasEvent(trace', "fnEnd"))
        => \A i \in 1..Len(trace') :
             (/\ i > IndexOf(trace', "fnEnd")
              /\ trace'[i].ev = "call"
              /\ trace'[i].sub = FnSub(lastOp'.f))
             => trace'[i].s # lastOp'.s
     /\ \A s \in Stores, f \in Fns :
          (/\ ~HasSub(stores[s].subs, FnSub(f))
           /\ ~(lastOp'.op = "subscribe" /\ lastOp'.s = s /\ lastOp'.f = f))
          => Calls(trace', FnSub(f), s) = <<>>]_vars

----------------------------------------------------------------------------
(* C35 *)

\* C35 as stated: when a call has thrown, the queue holds neither the sentinel
\* nor an entry; and a write that changes a store and returns normally, whether
\* or not an earlier call has thrown, calls every function subscribed to the
\* store
Cex_C35_QueueCleanAfterThrow ==
  [][Stepped =>
     /\ thrown' # NoErr => queue' = <<>>
     /\ \A s \in PlainStores, f \in Fns :
          (/\ lastOp'.op = "write"
           /\ lastOp'.s = s
           /\ ~SameValue(stores[s].value, lastOp'.v)
           /\ thrown' = NoErr
           /\ HasSub(stores[s].subs, FnSub(f)))
          => Calls(trace', FnSub(f), s) # <<>>]_vars

----------------------------------------------------------------------------
(* C36 *)

\* C36 as stated: a read of, or a subscription to, a computed that has no
\* subscriber completes without the TypeError of a call of the stop handle of
\* a store that is stopped, whatever its earlier activations read
Cex_C36_UnsubscribeAtMostOnce ==
  [][\A c \in Computeds :
       (/\ Stepped
        /\ lastOp'.op \in {"read", "subscribe"}
        /\ lastOp'.s = c
        /\ stores[c].subs = <<>>)
       => thrown' # TypeError]_vars

----------------------------------------------------------------------------
(* C37 *)

\* C37 as stated: between calls, a store holds a stop handle if and only if
\* it has a subscriber
Cex_C37_StopHandleIffSubscribers ==
  \A s \in Stores : (stores[s].stop # NoStop) <=> (stores[s].subs # <<>>)

----------------------------------------------------------------------------
(* C39 *)

\* the re-runs of live computeds in tr that threw: the throws of the
\* activation of a computed that has subscribers in st, in a run that a
\* delivery started
LiveThrows(st, tr) ==
  {x \in 1..Len(tr) :
     /\ tr[x].ev = "throw"
     /\ st[tr[x].s].subs # <<>>
     /\ tr[x].sub = CompSub(tr[x].s, st[tr[x].s].starts)
     /\ \E i \in 2..(x - 1) :
          /\ tr[i].ev = "sync" /\ tr[i].sub = tr[x].sub
          /\ tr[i - 1].ev = "call" /\ tr[i - 1].sub = tr[x].sub}

----------------------------------------------------------------------------
(* C38 *)

\* the re-runs in tr: the runs of a compute function in a sync that the call
\* of the activation's subscriber started
ReRuns(tr) ==
  {x \in 1..Len(tr) :
     /\ tr[x].ev = "run"
     /\ LET i == LastBefore(tr, x, "sync", tr[x].sub)
        IN i > 1 /\ tr[i - 1].ev = "call" /\ tr[i - 1].sub = tr[x].sub}

\* the value the computed of the run at x had before that run: what its last
\* run before x returned, or the value it has in st when tr has no such run
OutputBefore(st, tr, x) ==
  LET P == {i \in 1..(x - 1) : tr[i].ev = "run" /\ tr[i].s = tr[x].s}
  IN IF P = {} THEN st[tr[x].s].value
     ELSE tr[CHOOSE i \in P : \A j \in P : j <= i].val

\* the subscribers of its computed that the set of the run at x reached: the
\* "enqueue" and "held" events of the computed from x to its next run
NotifiedAfter(tr, x) ==
  {i \in (x + 1)..Len(tr) :
     /\ tr[i].ev \in {"enqueue", "held"}
     /\ tr[i].s = tr[x].s
     /\ \A k \in (x + 1)..(i - 1) : ~(tr[k].ev = "run" /\ tr[k].s = tr[x].s)}

\* the sync of the run at x has completed at y
SyncedAt(tr, x, y) ==
  /\ y > x
  /\ tr[y].ev = "synced"
  /\ tr[y].sub = tr[x].sub
  /\ \A k \in (x + 1)..(y - 1) : ~(tr[k].ev = "synced" /\ tr[k].sub = tr[x].sub)

\* C38: in a call that starts with the queue empty and returns, a re-run of a
\* computed that has subscribers reaches none of them when it returns a value
\* equal to the one the computed had; a subscriber of a computed, a function
\* or the activation of a
\* downstream computed, is put in the queue only by a re-run that changed the
\* value and, if it was subscribed before the call (subscribe itself calls the
\* new subscriber), is called only after it was put in the queue
Thm_C38_EqualOutputNotifiesNobody ==
  [][(Stepped /\ queue = <<>> /\ thrown' = NoErr) =>
       /\ \A x \in ReRuns(trace') : \A y \in 1..Len(trace') :
            (/\ SyncedAt(trace', x, y)
             /\ trace'[y].n > 0
             /\ SameValue(OutputBefore(stores, trace', x), trace'[x].val))
            => NotifiedAfter(trace', x) = {}
       /\ \A i \in 1..Len(trace') :
            (trace'[i].ev \in {"enqueue", "held"} /\ trace'[i].s \in Computeds)
            => \E x \in ReRuns(trace') :
                 /\ i \in NotifiedAfter(trace', x)
                 /\ ~SameValue(OutputBefore(stores, trace', x), trace'[x].val)
       /\ \A i \in 1..Len(trace') :
            (/\ trace'[i].ev = "call"
             /\ trace'[i].s \in Computeds
             /\ HasSub(stores[trace'[i].s].subs, trace'[i].sub))
            => \E j \in 1..(i - 1) :
                 /\ trace'[j].ev = "enqueue"
                 /\ trace'[j].s = trace'[i].s
                 /\ trace'[j].sub = trace'[i].sub]_vars

\* with a = 1, sel = a + sum subscribed by a function and registered on sum, a
\* batch updated b twice, back to the value it had: sum ran again and returned
\* the value it had, nothing was called for a change of sum and sel did not run
Wit_C38_EqualOutputNotifiesNobody ==
  /\ lastOp.op = "batch"
  /\ lastOp.body = <<"b", "b">>
  /\ thrown = NoErr
  /\ stores["sel"].subs # <<>>
  /\ \E e \in SeqRange(stores["sum"].subs) : e.sub[1] = "comp" /\ e.sub[2] = "sel"
  /\ \E x \in ReRuns(trace) :
       /\ trace[x].s = "sum"
       /\ trace[x].val = stores["sum"].value
       /\ NotifiedAfter(trace, x) = {}
  /\ \A i \in 1..Len(trace) :
       /\ trace[i].ev = "call" => trace[i].s # "sum"
       /\ trace[i].ev = "run" => trace[i].s = "sum"

====
